---- MODULE Spec2Model ----
\* Trial-sequence generation and delay scheduling of the SoA delay-variance
\* experiments: utils.py (seeded generator, Gaussian weights, delay sequences,
\* trial types, block and plan construction, epsilon), audio.py (AudioScheduler)
\* and experiment_bamba2020.py (constrained shuffle of the Block 3 delays).
\*
\* Conventions
\*   - Python None is the empty sequence, a present value v is <<v>>.
\*   - Times are integer milliseconds (the code keeps float seconds and adds
\*     delay_ms / 1000.0).
\*   - A ratio is an integer number of hundredths (0.2 is 20).  On the inputs
\*     enumerated here (n below 50, or the shipped block sizes with the shipped
\*     ratios) Python's int(n * ratio) on IEEE doubles equals (n * p) \div 100;
\*     the first input where they differ is n = 50, ratio = 0.58.
\*   - numpy's generator is a deterministic function of its state: a linear
\*     congruential generator over 0 .. RngMod-1 stands for the Mersenne Twister.
\*   - A call that can raise returns a record with a field raised ("" when the
\*     call returned normally, else the exception's class name).
EXTENDS Integers, Sequences, FiniteSets, TLC

VARIABLES
    calls,              \* create_all_trials invocations, one record per caller
    tt,                 \* one assign_trial_types call: arguments and result
    gw,                 \* one gaussian_weights call: arguments and result
    eps,                \* one calculate_epsilon call: argument and result
    np_random,          \* state of numpy's module-level generator (np.random)
    sorter,             \* one _sort_delays_with_constraint activation
    audio,              \* the AudioScheduler object and its ToneGenerator's play count
    now,                \* core.getTime(), in ms
    last,               \* the latest AudioScheduler call: its name, clock reading and result
    numpy_nan_check,    \* whether the installed numpy's choice() rejects NaN in p
    blk,                \* one create_block_trials call: arguments, locals and result
    exp,                \* the BoundaryTriggerExperiment object and the position of its run
    logger,             \* the DataLogger: its data list and whether it was saved
    keys,               \* psychopy's event buffer: the key presses not yet read
    shuf,               \* one RandomGenerator.shuffle call: the caller's list, before and after, and the result
    block3,             \* one SoAExperiment.run_block3 activation: its locals and the trials presented
    soa,                \* one SoAExperiment.run_trial activation: its arguments and locals
    seq                 \* one ContinuousRatingExperiment._generate_trial_sequence call

vars == <<calls, tt, gw, eps, np_random, sorter, audio, now, last, numpy_nan_check, blk, exp,
          logger, keys, shuf, block3, soa, seq>>

\* ------------------------------------------------------------------ bounds
RngMod == 101           \* size of the generator's state space
RngMul == 37            \* multiplier of the congruential step
RngInc == 11            \* increment of the congruential step
MaxSeed == 1            \* plans are built for the seeds 0 .. MaxSeed and DEFAULT_SEED
MaxTypeSeed == 5        \* assign_trial_types is tried with the seeds 0 .. MaxTypeSeed
MaxTypeN == 4           \* assign_trial_types is tried with n in 1 .. MaxTypeN
ExpScale == 10000       \* fixed-point unit of an unnormalized weight
WeightScale == 100000   \* fixed-point unit of a normalized weight (1.0)
MaxWLen == 2            \* gaussian_weights is tried on lists of 0 .. MaxWLen delays
MaxEpsDelay == 400      \* calculate_epsilon is tried on delays 0 .. MaxEpsDelay
MaxSortLen == 3         \* the constrained shuffle is tried on lists of 0 .. MaxSortLen
MaxSortVal == 2         \* ... of delays 0 .. MaxSortVal
MaxSortDiff == 2        \* ... with max_diff in 0 .. MaxSortDiff
MaxTime == 5            \* the clock runs from 0 to MaxTime ms
MaxSchedDelay == 2      \* schedule_tone is tried with delay_ms in 0 .. MaxSchedDelay
MaxPlays == 2           \* the tone is played at most MaxPlays times in one run
FewSigma == 3           \* "within a few sigma of mu": within FewSigma * sigma

\* ------------------------------------------------------------------ helpers
None == <<>>
Some(v) == <<v>>

Abs(x) == IF x < 0 THEN -x ELSE x

Max(a, b) == IF a >= b THEN a ELSE b

RECURSIVE SumSeq(_)
SumSeq(s) ==
    IF s = <<>> THEN 0 ELSE Head(s) + SumSeq(Tail(s))

Count(s, v) == Cardinality({i \in DOMAIN s : s[i] = v})

Repeat(v, n) == [i \in 1..n |-> v]

\* s and t hold the same elements with the same multiplicities
SameMultiset(s, t) ==
    /\ Len(s) = Len(t)
    /\ \A i \in DOMAIN s : Count(s, s[i]) = Count(t, s[i])

\* all sequences over S of length 0 .. n
SeqsUpTo(S, n) == UNION {[1..k -> S] : k \in 0..n}

\* ------------------------------------------------------------------ config.py
MU_0 == 200
DELAY_SET == <<0, 50, 100, 150, 200, 250, 300, 350, 400>>
PRETONE_RATIO == 20
DEFAULT_SEED == 42

Range50 == [i \in 1..11 |-> (i - 1) * 50]

EXPERIMENT_PRESETS ==
    [original |->
        [blocks |->
            [learning |-> [n_trials |-> 160, sigma |-> Some(50), name |-> "learning"],
             stable1 |-> [n_trials |-> 80, sigma |-> Some(50), name |-> "stable1"],
             volatile |-> [n_trials |-> 160, sigma |-> Some(150), name |-> "volatile"],
             stable2 |-> [n_trials |-> 80, sigma |-> Some(50), name |-> "stable2"]],
         block_order |-> <<"learning", "stable1", "volatile", "stable2">>,
         mu_0 |-> 200,
         delay_set |-> DELAY_SET],
     condition1_stable |->
        [blocks |->
            [stable_0ms |-> [n_trials |-> 20, sigma |-> None, name |-> "fixed 0ms",
                             fixed_delay |-> 0]],
         block_order |-> <<"stable_0ms">>,
         mu_0 |-> 0,
         delay_set |-> <<0>>],
     condition2_volatile |->
        [blocks |->
            [volatile_random |-> [n_trials |-> 20, sigma |-> None, name |-> "random",
                                  discrete_set |-> Range50]],
         block_order |-> <<"volatile_random">>,
         mu_0 |-> 250,
         delay_set |-> Range50],
     stable_volatile_stable |->
        [blocks |->
            [stable_0ms_1 |-> [n_trials |-> 20, sigma |-> None, name |-> "stable 1",
                               fixed_delay |-> 0],
             volatile_random |-> [n_trials |-> 20, sigma |-> None, name |-> "volatile",
                                  discrete_set |-> Range50],
             stable_0ms_2 |-> [n_trials |-> 20, sigma |-> None, name |-> "stable 2",
                               fixed_delay |-> 0]],
         block_order |-> <<"stable_0ms_1", "volatile_random", "stable_0ms_2">>,
         mu_0 |-> 0,
         delay_set |-> Range50],
     learning_test |->
        [blocks |->
            [learning |-> [n_trials |-> 160, sigma |-> Some(150), name |-> "learning"],
             test |-> [n_trials |-> 20, sigma |-> None, name |-> "test",
                       discrete_set |-> <<0, 400>>]],
         block_order |-> <<"learning", "test">>,
         mu_0 |-> 200,
         delay_set |-> DELAY_SET,
         pretone_ratio |-> 10]]

DEFAULT_PRESET == "original"
BLOCKS == EXPERIMENT_PRESETS["original"].blocks
BLOCK_ORDER == EXPERIMENT_PRESETS["original"].block_order

\* ------------------------------------------------------------------ utils.py: RandomGenerator
\* one step of the generator
RngNext(s) == (s * RngMul + RngInc) % RngMod

\* the callers of create_all_trials: two independent invocations
Callers == {"a", "b"}

\* a generator kept from an earlier call and handed to the next one
RandomGeneratorShared(seed) ==
    IF \E c \in Callers : calls[c].pc # "idle"
    THEN calls[CHOOSE c \in Callers : calls[c].pc # "idle"].rng
    ELSE [state |-> seed % RngMod, shuffles |-> 0, draws |-> <<"RandomState">>]

\* RandomGenerator.__init__: np.random.RandomState(seed); shuffles counts the
\* calls of the shuffle method made on the object, and draws lists the calls
\* made on the RandomState, its construction first, by the name of the method
RandomGenerator(seed) ==
    [state |-> seed % RngMod, shuffles |-> 0, draws |-> <<"RandomState">>]

\* the states the generator is in at its next n draws (the recursions below
\* split their range in halves, so their depth is logarithmic in n)
RECURSIVE Stream(_, _)
Stream(state, n) ==
    IF n = 0 THEN <<>>
    ELSE IF n = 1 THEN <<state>>
    ELSE LET h == n \div 2
             left == Stream(state, h)
         IN  left \o Stream(RngNext(left[h]), n - h)

\* the generator's state after n draws made from state
After(state, n) == IF n = 0 THEN state ELSE RngNext(Stream(state, n)[n])

\* RandomState.shuffle: Fisher-Yates from the last position down, one draw of
\* j in 0 .. i per position i (0-based); arr is 1-based here, and the draw for
\* position i is made in state st[Len(arr) - i + 1].
Swap(arr, i, j) == [arr EXCEPT ![i] = arr[j], ![j] = arr[i]]

\* the swaps of positions hi, hi-1, ..., lo in that order
RECURSIVE FisherYates(_, _, _, _)
FisherYates(arr, st, hi, lo) ==
    IF hi < lo THEN arr
    ELSE IF hi = lo THEN Swap(arr, hi, (st[Len(arr) - hi + 1] % hi) + 1)
    ELSE LET mid == (hi + lo) \div 2
             upper == FisherYates(arr, st, hi, mid + 1)
         IN  IF Len(upper) = 0 THEN upper ELSE FisherYates(upper, st, mid, lo)

\* a shuffle made on the caller's list itself, which is also what is returned
shuffle_in_place(rng, arr) ==
    LET n == Len(arr)
        draws == IF n < 2 THEN 0 ELSE n - 1
        shuffled == FisherYates(arr, Stream(rng.state, draws), n, 2)
    IN  [value |-> shuffled,
         arr |-> shuffled,
         rng |-> [rng EXCEPT !.state = After(rng.state, draws), !.shuffles = @ + 1,
                             !.draws = Append(@, "shuffle")]]

\* RandomGenerator.shuffle (lines 19-21): arr_copy = arr.copy() is shuffled by
\* RandomState.shuffle and returned (value); arr is the caller's list as the
\* call leaves it
shuffle(rng, arr) ==
    LET n == Len(arr)
        draws == IF n < 2 THEN 0 ELSE n - 1
        arr_copy == arr
    IN  [value |-> FisherYates(arr_copy, Stream(rng.state, draws), n, 2),
         arr |-> arr,
         rng |-> [rng EXCEPT !.state = After(rng.state, draws), !.shuffles = @ + 1,
                             !.draws = Append(@, "shuffle")]]

\* RandomState.randint(low, high): one draw of an integer in low .. high-1
randint(rng, low, high) ==
    [value |-> low + (rng.state % (high - low)),
     rng |-> [rng EXCEPT !.state = RngNext(rng.state), !.draws = Append(@, "randint")]]

\* RandomGenerator.choice(arr) with size=None, p=None: one uniform index
choice(rng, arr) ==
    LET r == randint(rng, 0, Len(arr))
    IN  [value |-> arr[r.value + 1],
         rng |-> [r.rng EXCEPT !.draws = Append(rng.draws, "choice")]]

\* ------------------------------------------------------------------ utils.py: gaussian_weights
\* np.exp(-num/den) in units of 1/ExpScale.  A double underflows to 0.0 once
\* num/den exceeds about 745; below that the value is positive, so the
\* fixed-point value is kept at least one unit.
RECURSIVE ExpTaylor(_, _, _, _, _)
ExpTaylor(r, den, j, term, acc) ==
    IF j > 8 \/ term = 0
    THEN acc
    ELSE LET t == (term * r) \div (den * j)
         IN  ExpTaylor(r, den, j + 1, t, IF j % 2 = 1 THEN acc - t ELSE acc + t)

RECURSIVE ExpInt(_, _)
ExpInt(k, x) ==
    IF k = 0 \/ x = 0 THEN x ELSE ExpInt(k - 1, (x * 3679) \div 10000)

ExpNeg(num, den) ==
    IF num > 745 * den
    THEN 0
    ELSE Max(1, ExpInt(num \div den, ExpTaylor(num % den, den, 1, ExpScale, ExpScale)))

\* line 41: the unnormalized weights; sigma = 0 divides by zero, which numpy
\* answers with inf and nan (a warning, no exception)
Unnormalized(delays, mu, sigma) ==
    [i \in DOMAIN delays |-> ExpNeg((delays[i] - mu) * (delays[i] - mu), 2 * sigma * sigma)]

NormalizeBySum(e) ==
    LET s == SumSeq(e)
    IN  [i \in DOMAIN e |-> (e[i] * WeightScale) \div s]

\* the weights divided by their largest entry instead of their sum
NormalizeByMax(e) ==
    LET m == CHOOSE x \in {e[i] : i \in DOMAIN e} : \A i \in DOMAIN e : e[i] <= x
    IN  [i \in DOMAIN e |-> (e[i] * WeightScale) \div m]

\* line 42: weights / weights.sum()
Normalize(e) == NormalizeBySum(e)

\* gaussian_weights(delays, mu, sigma), sigma a number.  nan: every entry of the
\* returned array is NaN (0/0, or sigma = 0); w is meaningful when nan is FALSE.
gaussian_weights(delays, mu, sigma) ==
    IF sigma = 0
    THEN [nan |-> delays # <<>>, w |-> [i \in DOMAIN delays |-> 0]]
    ELSE LET e == Unnormalized(delays, mu, sigma)
         IN  IF SumSeq(e) = 0
             THEN [nan |-> delays # <<>>, w |-> [i \in DOMAIN delays |-> 0]]
             ELSE [nan |-> FALSE, w |-> Normalize(e)]

\* ------------------------------------------------------------------ utils.py: delays and types
\* cdf = p.cumsum()
Cdf(p) == [i \in DOMAIN p |-> SumSeq(SubSeq(p, 1, i))]

\* RandomState.choice(arr, size=n, p=p): n uniform samples, each located in the
\* cumulative distribution (searchsorted, side='right')
WeightedSamples(state, arr, cdf, n) ==
    LET st == Stream(state, n)
        idx(k) == LET u == (st[k] * cdf[Len(cdf)]) \div RngMod
                  IN  Cardinality({i \in DOMAIN cdf : cdf[i] <= u})
    IN  [k \in 1..n |-> arr[idx(k) + 1]]

\* RandomGenerator.choice(arr, size, p).  With NaN in p, a numpy that checks
\* raises ValueError; one that does not finds every sample at index 0.
weighted_choice(rng, arr, size, p) ==
    IF p.nan
    THEN IF numpy_nan_check
         THEN [raised |-> "ValueError", value |-> <<>>, rng |-> rng]
         ELSE [raised |-> "", value |-> Repeat(arr[1], size),
               rng |-> [rng EXCEPT !.state = After(rng.state, size),
                                   !.draws = Append(@, "choice")]]
    ELSE [raised |-> "",
          value |-> WeightedSamples(rng.state, arr, Cdf(p.w), size),
          rng |-> [rng EXCEPT !.state = After(rng.state, size),
                              !.draws = Append(@, "choice")]]

\* generate_delay_sequence with its last line left out: the sample is returned
\* in sampling order
generate_delay_sequence_unshuffled(n_trials, sigma, rng) ==
    IF sigma = None
    THEN [raised |-> "TypeError", value |-> <<>>, sampled |-> <<>>, rng |-> rng]
    ELSE LET weights == gaussian_weights(DELAY_SET, MU_0, sigma[1])
             sampled == weighted_choice(rng, DELAY_SET, n_trials, weights)
         IN  [raised |-> sampled.raised, value |-> sampled.value,
              sampled |-> sampled.value, rng |-> sampled.rng]

\* generate_delay_sequence(n_trials, sigma, rng), sigma None or a number;
\* sampled is the local sampled_delays of line 65
generate_delay_sequence(n_trials, sigma, rng) ==
    IF sigma = None
    THEN [raised |-> "TypeError", value |-> <<>>, sampled |-> <<>>, rng |-> rng]
    ELSE LET weights == gaussian_weights(DELAY_SET, MU_0, sigma[1])
             sampled == weighted_choice(rng, DELAY_SET, n_trials, weights)
         IN  IF sampled.raised # ""
             THEN [raised |-> sampled.raised, value |-> <<>>, sampled |-> <<>>,
                   rng |-> sampled.rng]
             ELSE LET s == shuffle(sampled.rng, sampled.value)
                  IN  [raised |-> "", value |-> s.value, sampled |-> sampled.value,
                       rng |-> s.rng]

\* the count rounded to the nearest integer instead of truncated
NPretoneRounded(n_trials, pretone_ratio) == (n_trials * pretone_ratio + 50) \div 100

\* int(n_trials * pretone_ratio), the ratio in hundredths
NPretone(n_trials, pretone_ratio) == (n_trials * pretone_ratio) \div 100

\* assign_trial_types(n_trials, pretone_ratio, rng)
assign_trial_types(n_trials, pretone_ratio, rng) ==
    LET n_pretone == NPretone(n_trials, pretone_ratio)
        n_active == n_trials - n_pretone
        trial_types == Repeat("Active", n_active) \o Repeat("Pre-tone", n_pretone)
    IN  shuffle(rng, trial_types)

\* ------------------------------------------------------------------ utils.py: blocks and plan
\* n successive randint(low, high) draws on one generator
RandintN(rng, n, low, high) ==
    LET st == Stream(rng.state, n)
    IN  [value |-> [k \in 1..n |-> randint([rng EXCEPT !.state = st[k]], low, high).value],
         rng |-> [rng EXCEPT !.state = After(rng.state, n),
                             !.draws = @ \o Repeat("randint", n)]]

\* line 120: n successive rng.choice(arr) draws on one generator
ChoiceN(rng, n, arr) ==
    LET st == Stream(rng.state, n)
    IN  [value |-> [k \in 1..n |-> choice([rng EXCEPT !.state = st[k]], arr).value],
         rng |-> [rng EXCEPT !.state = After(rng.state, n),
                             !.draws = @ \o Repeat("choice", n)]]

\* the draws made up to max_delay + 2, one value too many
UniformDelaysWide(rng, n_trials, min_delay, max_delay) ==
    RandintN(rng, n_trials, min_delay, max_delay + 2)

\* line 124: n_trials draws of rng.rng.randint(min_delay, max_delay + 1)
UniformDelays(rng, n_trials, min_delay, max_delay) ==
    RandintN(rng, n_trials, min_delay, max_delay + 1)

\* block_info.get('sigma'), line 111
SigmaOf(block_info) ==
    IF "sigma" \in DOMAIN block_info THEN block_info.sigma ELSE None

\* the modes tried with discrete_set before fixed_delay
BlockDelaysDiscreteFirst(block_info, rng) ==
    LET n_trials == block_info.n_trials
    IN  IF "discrete_set" \in DOMAIN block_info
        THEN LET discrete_set == block_info.discrete_set
                 r == ChoiceN(rng, n_trials, discrete_set)
             IN  [raised |-> "", value |-> r.value, sampled |-> r.value, rng |-> r.rng]
        ELSE IF "fixed_delay" \in DOMAIN block_info
        THEN LET d == Repeat(block_info.fixed_delay, n_trials)
             IN  [raised |-> "", value |-> d, sampled |-> d, rng |-> rng]
        ELSE IF "uniform_range" \in DOMAIN block_info
        THEN LET r == UniformDelays(rng, n_trials, block_info.uniform_range[1],
                                    block_info.uniform_range[2])
             IN  [raised |-> "", value |-> r.value, sampled |-> r.value, rng |-> r.rng]
        ELSE generate_delay_sequence(n_trials, SigmaOf(block_info), rng)

\* lines 114-127: the block's delays, by the first mode its spec populates;
\* sampled is the list of the values in the order they were drawn
BlockDelays(block_info, rng) ==
    LET n_trials == block_info.n_trials
        sigma == SigmaOf(block_info)
    IN  IF "fixed_delay" \in DOMAIN block_info
        THEN LET d == Repeat(block_info.fixed_delay, n_trials)
             IN  [raised |-> "", value |-> d, sampled |-> d, rng |-> rng]
        ELSE IF "discrete_set" \in DOMAIN block_info
        THEN LET discrete_set == block_info.discrete_set
                 r == ChoiceN(rng, n_trials, discrete_set)
             IN  [raised |-> "", value |-> r.value, sampled |-> r.value, rng |-> r.rng]
        ELSE IF "uniform_range" \in DOMAIN block_info
        THEN LET min_delay == block_info.uniform_range[1]
                 max_delay == block_info.uniform_range[2]
                 r == UniformDelays(rng, n_trials, min_delay, max_delay)
             IN  [raised |-> "", value |-> r.value, sampled |-> r.value, rng |-> r.rng]
        ELSE generate_delay_sequence(n_trials, sigma, rng)

\* the delay kept on a Pre-tone trial as well
TrialKeepDelay(block_id, block_info, i, trial_type, delay, sigma) ==
    [block_id |-> block_id,
     block_name |-> block_info.name,
     trial_index_in_block |-> i,
     trial_type |-> trial_type,
     delay_ms |-> Some(delay),
     sigma |-> sigma]

\* the index counted from 1
TrialOneBased(block_id, block_info, i, trial_type, delay, sigma) ==
    [block_id |-> block_id,
     block_name |-> block_info.name,
     trial_index_in_block |-> i + 1,
     trial_type |-> trial_type,
     delay_ms |-> IF trial_type = "Active" THEN Some(delay) ELSE None,
     sigma |-> sigma]

\* lines 135-142: one trial descriptor
Trial(block_id, block_info, i, trial_type, delay, sigma) ==
    [block_id |-> block_id,
     block_name |-> block_info.name,
     trial_index_in_block |-> i,
     trial_type |-> trial_type,
     delay_ms |-> IF trial_type = "Active" THEN Some(delay) ELSE None,
     sigma |-> sigma]

\* the trial types assigned before the delays are generated
create_block_trials_types_first(block_id, rng, block_info, pretone_ratio) ==
    LET n_trials == block_info.n_trials
        sigma == SigmaOf(block_info)
        trial_types == assign_trial_types(n_trials, pretone_ratio, rng)
        delays == BlockDelays(block_info, trial_types.rng)
    IN  IF delays.raised # ""
        THEN [raised |-> delays.raised, value |-> <<>>, rng |-> delays.rng]
        ELSE [raised |-> "",
              value |-> [i \in 1..n_trials |->
                            Trial(block_id, block_info, i - 1, trial_types.value[i],
                                  delays.value[i], sigma)],
              rng |-> delays.rng]

\* create_block_trials(block_id, rng, block_info, pretone_ratio)
create_block_trials(block_id, rng, block_info, pretone_ratio) ==
    LET n_trials == block_info.n_trials
        sigma == SigmaOf(block_info)
        delays == BlockDelays(block_info, rng)
    IN  IF delays.raised # ""
        THEN [raised |-> delays.raised, value |-> <<>>, rng |-> delays.rng]
        ELSE LET trial_types == assign_trial_types(n_trials, pretone_ratio, delays.rng)
             IN  [raised |-> "",
                  value |-> [i \in 1..n_trials |->
                                Trial(block_id, block_info, i - 1, trial_types.value[i],
                                      delays.value[i], sigma)],
                  rng |-> trial_types.rng]

\* the index restarted at 0 in every block
WithBlockIndex(trial, global_index) ==
    [k \in DOMAIN trial \cup {"trial_index_global"} |->
        IF k = "trial_index_global" THEN trial.trial_index_in_block ELSE trial[k]]

\* lines 178-180: trial['trial_index_global'] = global_index
WithGlobalIndex(trial, global_index) ==
    [k \in DOMAIN trial \cup {"trial_index_global"} |->
        IF k = "trial_index_global" THEN global_index ELSE trial[k]]

\* the loop with each block's trials put in front of those of the earlier blocks
RECURSIVE BlockLoopPrepend(_, _, _, _, _, _, _)
BlockLoopPrepend(blocks, block_order, pretone_ratio, k, rng, global_index, all_trials) ==
    IF k > Len(block_order)
    THEN [raised |-> "", value |-> all_trials, rng |-> rng]
    ELSE LET block_id == block_order[k]
             block_trials == create_block_trials(block_id, rng, blocks[block_id], pretone_ratio)
         IN  IF block_trials.raised # ""
             THEN [raised |-> block_trials.raised, value |-> <<>>, rng |-> block_trials.rng]
             ELSE BlockLoopPrepend(blocks, block_order, pretone_ratio, k + 1,
                                   block_trials.rng,
                                   global_index + Len(block_trials.value),
                                   [i \in DOMAIN block_trials.value |->
                                       WithGlobalIndex(block_trials.value[i],
                                                       global_index + i - 1)]
                                       \o all_trials)

\* lines 174-182: the loop over block_order, from position k, with the running
\* global_index
RECURSIVE BlockLoop(_, _, _, _, _, _, _)
BlockLoop(blocks, block_order, pretone_ratio, k, rng, global_index, all_trials) ==
    IF k > Len(block_order)
    THEN [raised |-> "", value |-> all_trials, rng |-> rng]
    ELSE LET block_id == block_order[k]
             block_trials == create_block_trials(block_id, rng, blocks[block_id], pretone_ratio)
         IN  IF block_trials.raised # ""
             THEN [raised |-> block_trials.raised, value |-> <<>>, rng |-> block_trials.rng]
             ELSE BlockLoop(blocks, block_order, pretone_ratio, k + 1, block_trials.rng,
                            global_index + Len(block_trials.value),
                            all_trials \o
                                [i \in DOMAIN block_trials.value |->
                                    WithGlobalIndex(block_trials.value[i], global_index + i - 1)])

\* line 164: preset and preset in config.EXPERIMENT_PRESETS
PresetKnown(preset) ==
    /\ preset # None
    /\ preset[1] # ""
    /\ preset[1] \in DOMAIN EXPERIMENT_PRESETS

\* the fallback taken with half the default ratio
ResolveFallbackHalfRatio(preset) ==
    IF PresetKnown(preset)
    THEN LET preset_config == EXPERIMENT_PRESETS[preset[1]]
         IN  [blocks |-> preset_config.blocks,
              block_order |-> preset_config.block_order,
              pretone_ratio |-> IF "pretone_ratio" \in DOMAIN preset_config
                                THEN preset_config.pretone_ratio
                                ELSE PRETONE_RATIO]
    ELSE [blocks |-> BLOCKS, block_order |-> BLOCK_ORDER,
          pretone_ratio |-> PRETONE_RATIO \div 2]

\* the preset's own ratio left unread
ResolveNoOverride(preset) ==
    IF PresetKnown(preset)
    THEN LET preset_config == EXPERIMENT_PRESETS[preset[1]]
         IN  [blocks |-> preset_config.blocks,
              block_order |-> preset_config.block_order,
              pretone_ratio |-> PRETONE_RATIO]
    ELSE [blocks |-> BLOCKS, block_order |-> BLOCK_ORDER, pretone_ratio |-> PRETONE_RATIO]

\* lines 164-172: the configuration a call runs with
Resolve(preset) ==
    IF PresetKnown(preset)
    THEN LET preset_config == EXPERIMENT_PRESETS[preset[1]]
         IN  [blocks |-> preset_config.blocks,
              block_order |-> preset_config.block_order,
              pretone_ratio |-> IF "pretone_ratio" \in DOMAIN preset_config
                                THEN preset_config.pretone_ratio
                                ELSE PRETONE_RATIO]
    ELSE [blocks |-> BLOCKS, block_order |-> BLOCK_ORDER, pretone_ratio |-> PRETONE_RATIO]

\* create_all_trials(seed, preset) run on the generator rng
PlanFrom(rng, preset) ==
    LET cfg == Resolve(preset)
    IN  BlockLoop(cfg.blocks, cfg.block_order, cfg.pretone_ratio, 1, rng, 0, <<>>)

\* ------------------------------------------------------------------ callers of the plan builder
Seeds == (0..MaxSeed) \cup {DEFAULT_SEED}

\* preset arguments: None, the empty string, every key of the table, and a name
\* that is no key
PresetArgs ==
    {None, Some(""), Some("no_such_preset")} \cup {Some(p) : p \in DOMAIN EXPERIMENT_PRESETS}

IdleCall ==
    [pc |-> "idle", seed |-> 0, preset |-> None, raised |-> "", all_trials |-> <<>>,
     rng |-> [state |-> 0, shuffles |-> 0, draws |-> <<>>]]

\* create_all_trials(seed, preset), called by c
create_all_trials(c, seed, preset) ==
    /\ calls[c].pc = "idle"
    /\ LET rng == RandomGenerator(seed)
           r == PlanFrom(rng, preset)
       IN  calls' = [calls EXCEPT ![c] =
                        [pc |-> IF r.raised = "" THEN "returned" ELSE "raised",
                         seed |-> seed,
                         preset |-> preset,
                         raised |-> r.raised,
                         all_trials |-> r.value,
                         rng |-> r.rng]]
    /\ UNCHANGED <<tt, gw, eps, np_random, sorter, audio, now, last, numpy_nan_check, blk, exp, logger, keys,
                   shuf, block3, soa, seq>>

\* ------------------------------------------------------------------ idle values of the components
IdleTypes ==
    [pc |-> "idle", n_trials |-> 0, pretone_ratio |-> 0, seed |-> 0, result |-> <<>>]
IdleWeights ==
    [pc |-> "idle", delays |-> <<>>, mu |-> 0, sigma |-> 0, raised |-> "", nan |-> FALSE,
     result |-> <<>>]
IdleEps ==
    [pc |-> "idle", delay_ms |-> None, epsilon |-> None, epsilon_squared |-> None]
IdleSorter ==
    [pc |-> "idle", delays |-> <<>>, max_diff |-> 0, shuffled |-> <<>>, raised |-> "",
     result |-> <<>>]
\* AudioScheduler.__init__ (lines 74-77); plays counts ToneGenerator.play calls
IdleAudio ==
    [scheduled_time |-> None, actual_play_time |-> None, plays |-> 0]
IdleLast ==
    [op |-> "init", at |-> 0, value |-> FALSE, delay_ms |-> 0, reference_time |-> 0,
     fired_since_arm |-> 0]
IdleBlock ==
    [pc |-> "idle"]
\* no experiment object was built
IdleExperiment ==
    [pc |-> "idle"]
\* DataLogger.__init__ (line 26); saved: save_all() was called
IdleLogger ==
    [data |-> <<>>, saved |-> FALSE]
IdleShuffle ==
    [pc |-> "idle"]
IdleBlock3 ==
    [pc |-> "idle"]
IdleSoA ==
    [pc |-> "idle"]
IdleSeq ==
    [pc |-> "idle"]

\* ------------------------------------------------------------------ plan construction
PlanInit ==
    /\ calls = [c \in Callers |-> IdleCall]
    /\ tt = IdleTypes
    /\ gw = IdleWeights
    /\ eps = IdleEps
    /\ np_random = 0
    /\ sorter = IdleSorter
    /\ audio = IdleAudio
    /\ now = 0
    /\ last = IdleLast
    /\ numpy_nan_check = TRUE
    /\ blk = IdleBlock
    /\ exp = IdleExperiment
    /\ logger = IdleLogger
    /\ keys = {}
    /\ block3 = IdleBlock3
    /\ soa = IdleSoA
    /\ seq = IdleSeq
    /\ shuf = IdleShuffle

\* the two invocations follow each other: "a" calls first
PlanNext ==
    \E c \in Callers, seed \in Seeds, preset \in PresetArgs :
        /\ c = "b" => calls["a"].pc # "idle"
        /\ create_all_trials(c, seed, preset)

PlanSpec == PlanInit /\ [][PlanNext]_vars

\* ------------------------------------------------------------------ assign_trial_types, called alone
TypesInit ==
    /\ tt \in {[pc |-> "ready", n_trials |-> n, pretone_ratio |-> r, seed |-> s,
                result |-> <<>>] : n \in 1..MaxTypeN, r \in 0..100, s \in 0..MaxTypeSeed}
    /\ calls = [c \in Callers |-> IdleCall]
    /\ gw = IdleWeights
    /\ eps = IdleEps
    /\ np_random = 0
    /\ sorter = IdleSorter
    /\ audio = IdleAudio
    /\ now = 0
    /\ last = IdleLast
    /\ numpy_nan_check = TRUE
    /\ blk = IdleBlock
    /\ exp = IdleExperiment
    /\ logger = IdleLogger
    /\ keys = {}
    /\ block3 = IdleBlock3
    /\ soa = IdleSoA
    /\ seq = IdleSeq
    /\ shuf = IdleShuffle

\* test_trial_type_assignment: a fresh generator, then one assign_trial_types call
CallAssignTrialTypes ==
    /\ tt.pc = "ready"
    /\ tt' = [tt EXCEPT !.pc = "returned",
                        !.result = assign_trial_types(tt.n_trials, tt.pretone_ratio,
                                                      RandomGenerator(tt.seed)).value]
    /\ UNCHANGED <<calls, gw, eps, np_random, sorter, audio, now, last, numpy_nan_check, blk, exp, logger, keys,
                   shuf, block3, soa, seq>>

TypesNext == CallAssignTrialTypes

TypesSpec == TypesInit /\ [][TypesNext]_vars

\* ------------------------------------------------------------------ utils.py: calculate_epsilon
\* the deviation without its sign
calculate_epsilon_abs(delay_ms) ==
    IF delay_ms = None
    THEN <<None, None>>
    ELSE LET epsilon == Abs(delay_ms[1] - MU_0)
         IN  <<Some(epsilon), Some(epsilon * epsilon)>>

\* the deviation from the mu_0 of the preset that is running
calculate_epsilon_preset_mu(delay_ms) ==
    IF delay_ms = None
    THEN <<None, None>>
    ELSE LET mu == IF "preset_config" \in DOMAIN exp /\ exp.preset_config # None
                   THEN exp.preset_config[1].mu_0
                   ELSE MU_0
             epsilon == delay_ms[1] - mu
         IN  <<Some(epsilon), Some(epsilon * epsilon)>>

\* calculate_epsilon(delay_ms)
calculate_epsilon(delay_ms) ==
    IF delay_ms = None
    THEN <<None, None>>
    ELSE LET epsilon == delay_ms[1] - MU_0
             epsilon_squared == epsilon * epsilon
         IN  <<Some(epsilon), Some(epsilon_squared)>>

EpsInit ==
    /\ eps \in {[pc |-> "ready", delay_ms |-> d, epsilon |-> None, epsilon_squared |-> None] :
                    d \in {None} \cup {Some(x) : x \in 0..MaxEpsDelay}}
    /\ calls = [c \in Callers |-> IdleCall]
    /\ tt = IdleTypes
    /\ gw = IdleWeights
    /\ np_random = 0
    /\ sorter = IdleSorter
    /\ audio = IdleAudio
    /\ now = 0
    /\ last = IdleLast
    /\ numpy_nan_check = TRUE
    /\ blk = IdleBlock
    /\ exp = IdleExperiment
    /\ logger = IdleLogger
    /\ keys = {}
    /\ block3 = IdleBlock3
    /\ soa = IdleSoA
    /\ seq = IdleSeq
    /\ shuf = IdleShuffle

\* test_epsilon_calculation: one calculate_epsilon call
CallCalculateEpsilon ==
    /\ eps.pc = "ready"
    /\ LET r == calculate_epsilon(eps.delay_ms)
       IN  eps' = [eps EXCEPT !.pc = "returned", !.epsilon = r[1], !.epsilon_squared = r[2]]
    /\ UNCHANGED <<calls, tt, gw, np_random, sorter, audio, now, last, numpy_nan_check, blk, exp, logger, keys,
                   shuf, block3, soa, seq>>

EpsNext == CallCalculateEpsilon

EpsSpec == EpsInit /\ [][EpsNext]_vars

\* ------------------------------------------------------------------ gaussian_weights, called alone
GwDelays == {0, 200, 400}
GwMus == {200, 250}
GwSigmas == {0, 5, 50, 150}

WeightsInit ==
    /\ gw \in {[pc |-> "ready", delays |-> d, mu |-> m, sigma |-> s, raised |-> "",
                nan |-> FALSE, result |-> <<>>] :
                    d \in SeqsUpTo(GwDelays, MaxWLen), m \in GwMus, s \in GwSigmas}
    /\ calls = [c \in Callers |-> IdleCall]
    /\ tt = IdleTypes
    /\ eps = IdleEps
    /\ np_random = 0
    /\ sorter = IdleSorter
    /\ audio = IdleAudio
    /\ now = 0
    /\ last = IdleLast
    /\ numpy_nan_check = TRUE
    /\ blk = IdleBlock
    /\ exp = IdleExperiment
    /\ logger = IdleLogger
    /\ keys = {}
    /\ block3 = IdleBlock3
    /\ soa = IdleSoA
    /\ seq = IdleSeq
    /\ shuf = IdleShuffle

\* test_gaussian_weights: one gaussian_weights call; it has no raise statement
\* and numpy answers a division by zero with a warning
CallGaussianWeights ==
    /\ gw.pc = "ready"
    /\ LET r == gaussian_weights(gw.delays, gw.mu, gw.sigma)
       IN  gw' = [gw EXCEPT !.pc = "returned", !.nan = r.nan, !.result = r.w]
    /\ UNCHANGED <<calls, tt, eps, np_random, sorter, audio, now, last, numpy_nan_check, blk, exp, logger, keys,
                   shuf, block3, soa, seq>>

WeightsNext == CallGaussianWeights

WeightsSpec == WeightsInit /\ [][WeightsNext]_vars

\* ------------------------------------------------------------------ experiment_bamba2020.py: constrained shuffle
\* the adjacent differences compared without abs()
ValidSigned(shuffled, max_diff) ==
    \A i \in 1..(Len(shuffled) - 1) : shuffled[i] - shuffled[i + 1] <= max_diff

\* lines 521-525: every adjacent pair is within max_diff
Valid(shuffled, max_diff) ==
    \A i \in 1..(Len(shuffled) - 1) : Abs(shuffled[i] - shuffled[i + 1]) <= max_diff

SortInit ==
    /\ sorter \in {[pc |-> "called", delays |-> d, max_diff |-> m, shuffled |-> <<>>,
                    raised |-> "", result |-> <<>>] :
                        d \in SeqsUpTo(0..MaxSortVal, MaxSortLen), m \in 0..MaxSortDiff}
    /\ np_random \in 0..(RngMod - 1)
    /\ calls = [c \in Callers |-> IdleCall]
    /\ tt = IdleTypes
    /\ gw = IdleWeights
    /\ eps = IdleEps
    /\ audio = IdleAudio
    /\ now = 0
    /\ last = IdleLast
    /\ numpy_nan_check = TRUE
    /\ blk = IdleBlock
    /\ exp = IdleExperiment
    /\ logger = IdleLogger
    /\ keys = {}
    /\ block3 = IdleBlock3
    /\ soa = IdleSoA
    /\ seq = IdleSeq
    /\ shuf = IdleShuffle

\* _sort_delays_with_constraint, lines 511-512: a list of at most one delay is
\* returned as it is, any other enters the loop
SortCall ==
    /\ sorter.pc = "called"
    /\ sorter' = IF Len(sorter.delays) <= 1
                 THEN [sorter EXCEPT !.pc = "returned", !.result = sorter.delays]
                 ELSE [sorter EXCEPT !.pc = "loop"]
    /\ UNCHANGED <<calls, tt, gw, eps, np_random, audio, now, last, numpy_nan_check, blk, exp, logger, keys, shuf, block3, soa, seq>>

\* lines 515-529: one pass of the while True loop: shuffle a copy with the
\* module-level generator, check it, return it when it is valid
SortIteration ==
    /\ sorter.pc = "loop"
    /\ LET s == shuffle([state |-> np_random, shuffles |-> 0, draws |-> <<>>], sorter.delays)
       IN  /\ np_random' = s.rng.state
           /\ sorter' = IF Valid(s.value, sorter.max_diff)
                        THEN [sorter EXCEPT !.pc = "returned", !.shuffled = s.value,
                                            !.result = s.value]
                        ELSE [sorter EXCEPT !.shuffled = s.value]
    /\ UNCHANGED <<calls, tt, gw, eps, audio, now, last, numpy_nan_check, blk, exp, logger, keys, shuf, block3, soa, seq>>

SortNext == SortCall \/ SortIteration

SortSpec == SortInit /\ [][SortNext]_vars

\* the loop is never suspended: a pass that can run does run
SortFairSpec == SortSpec /\ WF_vars(SortIteration)

\* ------------------------------------------------------------------ audio.py: AudioScheduler
SchedInit ==
    /\ audio = IdleAudio
    /\ now = 0
    /\ last = IdleLast
    /\ calls = [c \in Callers |-> IdleCall]
    /\ tt = IdleTypes
    /\ gw = IdleWeights
    /\ eps = IdleEps
    /\ np_random = 0
    /\ sorter = IdleSorter
    /\ numpy_nan_check = TRUE
    /\ blk = IdleBlock
    /\ exp = IdleExperiment
    /\ logger = IdleLogger
    /\ keys = {}
    /\ block3 = IdleBlock3
    /\ soa = IdleSoA
    /\ seq = IdleSeq
    /\ shuf = IdleShuffle

\* the clock moves on between two calls
Tick ==
    /\ now < MaxTime
    /\ now' = now + 1
    /\ UNCHANGED <<calls, tt, gw, eps, np_random, sorter, audio, last, numpy_nan_check, blk, exp, logger, keys,
                   shuf, block3, soa, seq>>

\* A call on the scheduler is a function of the object and the clock reading: it
\* gives the object after the call (audio), the value returned (value) and the
\* record of the call (last).

\* a schedule_tone that arms for the reference time itself
ScheduleToneAtReference(a, l, t, delay_ms, reference_time) ==
    [audio |-> [a EXCEPT !.scheduled_time = Some(reference_time)],
     value |-> FALSE,
     last |-> [op |-> "schedule_tone", at |-> t, value |-> FALSE, delay_ms |-> delay_ms,
               reference_time |-> reference_time, fired_since_arm |-> 0]]

\* schedule_tone(delay_ms, reference_time), line 87
ScheduleTone(a, l, t, delay_ms, reference_time) ==
    [audio |-> [a EXCEPT !.scheduled_time = Some(reference_time + delay_ms)],
     value |-> FALSE,
     last |-> [op |-> "schedule_tone", at |-> t, value |-> FALSE, delay_ms |-> delay_ms,
               reference_time |-> reference_time, fired_since_arm |-> 0]]

\* the comparison with > in place of >=
ReadyStrict(current_time, scheduled_time) == current_time > scheduled_time

\* the comparison of line 100
Ready(current_time, scheduled_time) == current_time >= scheduled_time

\* a poll that stamps the clock reading as the play time whether it fires or not
PlayIfReadyStamping(a, l, t) ==
    IF a.scheduled_time # None /\ Ready(t, a.scheduled_time[1])
    THEN [audio |-> [a EXCEPT !.plays = @ + 1,
                              !.actual_play_time = Some(t),
                              !.scheduled_time = None],
          value |-> TRUE,
          last |-> [l EXCEPT !.op = "play_if_ready", !.at = t, !.value = TRUE,
                             !.fired_since_arm = @ + 1]]
    ELSE [audio |-> [a EXCEPT !.actual_play_time = Some(t)],
          value |-> FALSE,
          last |-> [l EXCEPT !.op = "play_if_ready", !.at = t, !.value = FALSE]]

\* play_if_ready(), lines 96-106, with core.getTime() reading t
PlayIfReady(a, l, t) ==
    IF a.scheduled_time = None
    THEN [audio |-> a, value |-> FALSE,
          last |-> [l EXCEPT !.op = "play_if_ready", !.at = t, !.value = FALSE]]
    ELSE LET current_time == t
         IN  IF Ready(current_time, a.scheduled_time[1])
             THEN [audio |-> [a EXCEPT !.plays = @ + 1,
                                       !.actual_play_time = Some(current_time),
                                       !.scheduled_time = None],
                   value |-> TRUE,
                   last |-> [l EXCEPT !.op = "play_if_ready", !.at = t, !.value = TRUE,
                                      !.fired_since_arm = @ + 1]]
             ELSE [audio |-> a, value |-> FALSE,
                   last |-> [l EXCEPT !.op = "play_if_ready", !.at = t, !.value = FALSE]]

\* play_immediately(), lines 112-113
PlayImmediately(a, l, t) ==
    [audio |-> [a EXCEPT !.plays = @ + 1, !.actual_play_time = Some(t)],
     value |-> FALSE,
     last |-> [l EXCEPT !.op = "play_immediately", !.at = t, !.value = FALSE]]

\* a reset that leaves the scheduler as it finds it
ResetNothing(a, l, t) ==
    [audio |-> a,
     value |-> FALSE,
     last |-> [l EXCEPT !.op = "reset", !.at = t, !.value = FALSE]]

\* a reset that forgets the play time and keeps the pending fire time
ResetPlayTimeOnly(a, l, t) ==
    [audio |-> [a EXCEPT !.actual_play_time = None],
     value |-> FALSE,
     last |-> [l EXCEPT !.op = "reset", !.at = t, !.value = FALSE]]

\* reset(), lines 117-118
Reset(a, l, t) ==
    [audio |-> [a EXCEPT !.scheduled_time = None, !.actual_play_time = None],
     value |-> FALSE,
     last |-> [l EXCEPT !.op = "reset", !.at = t, !.value = FALSE]]

\* schedule_tone(delay_ms, reference_time), called on its own
schedule_tone(delay_ms, reference_time) ==
    /\ LET r == ScheduleTone(audio, last, now, delay_ms, reference_time)
       IN  audio' = r.audio /\ last' = r.last
    /\ UNCHANGED <<calls, tt, gw, eps, np_random, sorter, now, numpy_nan_check, blk, exp, logger, keys, shuf, block3, soa, seq>>

\* play_if_ready(), called on its own
play_if_ready ==
    /\ audio.plays < MaxPlays
    /\ LET r == PlayIfReady(audio, last, now)
       IN  audio' = r.audio /\ last' = r.last
    /\ UNCHANGED <<calls, tt, gw, eps, np_random, sorter, now, numpy_nan_check, blk, exp, logger, keys, shuf, block3, soa, seq>>

\* play_immediately(), called on its own
play_immediately ==
    /\ audio.plays < MaxPlays
    /\ LET r == PlayImmediately(audio, last, now)
       IN  audio' = r.audio /\ last' = r.last
    /\ UNCHANGED <<calls, tt, gw, eps, np_random, sorter, now, numpy_nan_check, blk, exp, logger, keys, shuf, block3, soa, seq>>

\* reset(), called on its own
reset ==
    /\ LET r == Reset(audio, last, now)
       IN  audio' = r.audio /\ last' = r.last
    /\ UNCHANGED <<calls, tt, gw, eps, np_random, sorter, now, numpy_nan_check, blk, exp, logger, keys, shuf, block3, soa, seq>>

SchedNext ==
    \/ Tick
    \/ \E delay_ms \in 0..MaxSchedDelay, reference_time \in 0..now :
            schedule_tone(delay_ms, reference_time)
    \/ play_if_ready
    \/ play_immediately
    \/ reset

SchedSpec == SchedInit /\ [][SchedNext]_vars

\* ------------------------------------------------------------------ experiment.py: BoundaryTriggerExperiment
\* The mouse is followed along the x axis only (y stays on the line through the
\* two circles).  A blocking core.wait(d) moves the clock on by d; a win.flip()
\* moves it on by one frame.  An action is one pass of a loop of run_trial; the
\* keys pressed since the previous getKeys() are an input of the pass (pressed)
\* and are read by its getKeys() with the others in the event buffer, each
\* tagged with the clock reading at which it was pressed.  The pass in which
\* the target is clicked is cut at its core.wait(0.2), so that a key can be
\* pressed during that wait.
FrameMs == 100          \* duration of one win.flip(), in ms
MaxIdleFrames == 1      \* passes of one run that do not end the loop they belong to

\* config.py lines 88-98
START_RADIUS == 50
START_X == 0 - 200
TARGET_RADIUS == 50
TARGET_X == 200
BOUNDARY_X == 0

\* the waits and the timeout of experiment.py, in ms
InstructionWaitMs == 1000
StartWaitMs == 1000
ClickWaitMs == 200
SoundTimeoutMs == 2000
PostToneWaitMs == 1000
InterTrialMs == 1000

\* mouse positions tried: in the start circle, right of the boundary outside
\* the target, in the target circle
MouseXs == {START_X, 100, TARGET_X}
\* values the participant sets on the slider
RatingValues == {50}
\* (seed, preset) pairs the experiment is built with
RunSeeds == {DEFAULT_SEED}
RunPresets == {Some("condition1_stable"), Some("condition2_volatile")}

\* BoundaryTriggerExperiment.__init__ (lines 30-66) with the plan trials; rating is the slider's
\* rating, wake the end of the blocking wait in progress, idle the number of
\* frames without progress so far and budget its limit, preset_config the
\* entry of the preset when it is not one of EXPERIMENT_PRESETS, quit_from the
\* place quit() was called from
ExperimentWith(seed, preset, trials) ==
    [pc |-> "built",
     seed |-> seed,
     preset |-> preset,
     trials |-> trials,
     current_trial_index |-> 0,
     i |-> 0,
     current_block |-> None,
     trial_start_time |-> 0,
     trial_state |-> None,
     prev_mouse_x |-> None,
     boundary_crossed |-> FALSE,
     click_time |-> None,
     tone_time |-> None,
     boundary_cross_time |-> None,
     rating |-> None,
     soa_rating |-> None,
     wake |-> 0,
     idle |-> 0,
     budget |-> MaxIdleFrames,
     preset_config |-> None,
     quit_from |-> ""]

\* line 51: self.trials = create_all_trials(seed, preset)
Experiment(seed, preset) ==
    ExperimentWith(seed, preset, PlanFrom(RandomGenerator(seed), preset).value)

\* quit() (lines 439-443), called from place
Quit(e, place) == [e EXCEPT !.pc = "exited", !.quit_from = place]

\* 'escape' in the keys read
HasKey(ks, name) == \E k \in ks : k[1] = name

KeyNames == {"escape", "space"}

\* the event buffer as a getKeys() at clock reading t finds it
Read(pressed, t) == keys \cup {<<name, t>> : name \in pressed}

\* the participant presses a key during the core.wait(0.2) of line 290
PressKey(name) ==
    /\ exp.pc = "click_wait"
    /\ ~HasKey(keys, name)
    /\ keys' = keys \cup {<<name, now>>}
    /\ UNCHANGED <<calls, tt, gw, eps, np_random, sorter, audio, now, last, numpy_nan_check,
                   blk, exp, logger, shuf, block3, soa, seq>>

\* show_instruction (lines 150-158) called at clock reading t: waitKeys empties
\* the event buffer, returns at space or escape and takes both out of the
\* buffer, so the getKeys() of line 154 sees an escape only if one more arrives
\* in between (late_escape); gives the clock reading at the return, or None
\* when quit() is called
show_instruction(t, late_escape) ==
    IF late_escape THEN None ELSE Some(t + FrameMs + InstructionWaitMs)

\* run() up to the head of its loop (lines 390-409)
RunBegin(late_escape) ==
    /\ exp.pc = "built"
    /\ LET t == show_instruction(now, late_escape)
       IN  IF t = None
           THEN /\ exp' = Quit(exp, "start_instruction")
                /\ now' = now + FrameMs
           ELSE /\ exp' = [exp EXCEPT !.pc = "next_trial"]
                /\ now' = t[1]
    /\ keys' = {}
    /\ UNCHANGED <<calls, tt, gw, eps, np_random, sorter, audio, last, numpy_nan_check,
                   blk, logger, shuf, block3, soa, seq>>

\* run_trial, lines 191-210: the trial's state is reset and the waiting_start
\* loop entered at clock reading t
BeginTrial(e, t) ==
    [e EXCEPT !.pc = "waiting_start",
              !.trial_start_time = t,
              !.trial_state = Some("waiting_start"),
              !.prev_mouse_x = None,
              !.boundary_crossed = FALSE,
              !.click_time = None,
              !.tone_time = None,
              !.boundary_cross_time = None]

\* save_all() that writes nothing
save_all_nothing(lg) == lg

\* DataLogger.save_all (logger.py lines 137-141): the records are written
save_all(lg) == [lg EXCEPT !.saved = TRUE]

\* the head of the loop of run() with show_break and the beginning of
\* run_trial (lines 411-419, 168-181, 191-210), and past the end of the loop
\* the last show_instruction, save_all and quit (lines 431-437)
NextTrial(late_escape) ==
    /\ exp.pc = "next_trial"
    /\ IF exp.i >= Len(exp.trials)
       THEN LET t == show_instruction(now, late_escape)
            IN  /\ IF t = None
                   THEN /\ exp' = Quit(exp, "end_instruction")
                        /\ now' = now + FrameMs
                        /\ UNCHANGED logger
                   ELSE /\ exp' = Quit(exp, "end")
                        /\ now' = t[1]
                        /\ logger' = save_all(logger)
                /\ keys' = {}
                /\ UNCHANGED <<audio, last>>
       ELSE LET trial_info == exp.trials[exp.i + 1]
                break == Some(trial_info.block_id) # exp.current_block
                            /\ exp.current_block # None
                t == IF break THEN show_instruction(now, late_escape) ELSE Some(now)
            IN  /\ break \/ ~late_escape
                /\ IF t = None
                   THEN /\ exp' = Quit(exp, "break")
                        /\ now' = now + FrameMs
                        /\ UNCHANGED <<audio, last>>
                   ELSE LET r == Reset(audio, last, t[1])
                        IN  /\ exp' = BeginTrial([exp EXCEPT !.current_block =
                                                        Some(trial_info.block_id)], t[1])
                            /\ now' = t[1]
                            /\ audio' = r.audio
                            /\ last' = r.last
                /\ keys' = IF break THEN {} ELSE keys
                /\ UNCHANGED logger
    /\ UNCHANGED <<calls, tt, gw, eps, np_random, sorter, numpy_nan_check, blk, shuf, block3, soa, seq>>

\* one pass of the waiting_start loop (lines 212-238) with the mouse at x and
\* its left button down or not
WaitingStartFrame(x, button, pressed) ==
    /\ exp.pc = "waiting_start"
    /\ LET t1 == now + FrameMs
           clicked == button /\ Abs(x - START_X) <= START_RADIUS
           t2 == IF clicked THEN t1 + StartWaitMs ELSE t1
           e1 == IF clicked
                 THEN [exp EXCEPT !.trial_state = Some("moving"), !.prev_mouse_x = Some(x),
                                  !.pc = "moving"]
                 ELSE [exp EXCEPT !.idle = @ + 1]
       IN  /\ clicked \/ exp.idle < exp.budget
           /\ now' = t2
           /\ exp' = IF HasKey(Read(pressed, t2), "escape") THEN Quit(e1, "waiting_start")
                    ELSE e1
    /\ keys' = {}
    /\ UNCHANGED <<calls, tt, gw, eps, np_random, sorter, audio, last, numpy_nan_check,
                   blk, logger, shuf, block3, soa, seq>>

\* the record put at the head of the list instead of its end
add_trial_prepend(lg, trial_data) ==
    [lg EXCEPT !.data = <<trial_data>> \o @]

\* DataLogger.add_trial (logger.py lines 41-56)
add_trial(lg, trial_data) ==
    LET active == trial_data.trial_type = "Active" /\ trial_data.delay_ms # None
        e == IF active THEN calculate_epsilon(trial_data.delay_ms) ELSE <<None, None>>
        timed == trial_data.t_tone_ms # None /\ trial_data.t_click_ms # None
        extra == [epsilon_k |-> e[1],
                  epsilon_k_squared |-> e[2],
                  actual_tone_latency_ms |->
                        IF timed
                        THEN Some(trial_data.t_tone_ms[1] - trial_data.t_click_ms[1])
                        ELSE None]
    IN  [lg EXCEPT !.data = Append(@, [k \in DOMAIN trial_data \cup DOMAIN extra |->
                                        IF k \in DOMAIN extra THEN extra[k] ELSE trial_data[k]])]

\* x - trial_start_time in ms "if x" (lines 342-344): None and 0.0 are false
SinceStart(x, trial_start_time) ==
    IF x # None /\ x # Some(0) THEN Some(x[1] - trial_start_time) ELSE None

\* the record built in the trial descriptor itself: trial_data is trial_info,
\* which add_trial then fills in
RecordTrialInPlace(e, lg, t, soa_rating) ==
    LET trial_info == e.trials[e.i + 1]
        trial_data ==
            [k \in DOMAIN trial_info \cup {"scheduled_delay_ms", "t_click_ms", "t_tone_ms",
                                            "boundary_cross_time_ms", "soa_rating",
                                            "response_time_ms"} |->
                CASE k = "scheduled_delay_ms" -> trial_info.delay_ms
                  [] k = "t_click_ms" -> SinceStart(e.click_time, e.trial_start_time)
                  [] k = "t_tone_ms" -> SinceStart(e.tone_time, e.trial_start_time)
                  [] k = "boundary_cross_time_ms" ->
                        SinceStart(e.boundary_cross_time, e.trial_start_time)
                  [] k = "soa_rating" -> soa_rating
                  [] k = "response_time_ms" -> t - e.trial_start_time
                  [] OTHER -> trial_info[k]]
        lg1 == add_trial(lg, trial_data)
    IN  [exp |-> [e EXCEPT !.pc = "next_trial", !.soa_rating = soa_rating,
                           !.i = @ + 1, !.current_trial_index = e.i + 1,
                           !.trials[e.i + 1] = lg1.data[Len(lg1.data)]],
         logger |-> lg1,
         now |-> t + InterTrialMs]

\* run_trial, lines 335-353, and line 421 of run(): the record of the trial is
\* built at clock reading t and added to the logger, then the inter-trial wait
RecordTrial(e, lg, t, soa_rating) ==
    LET trial_info == e.trials[e.i + 1]
        trial_data ==
            [trial_index_global |-> trial_info.trial_index_global,
             trial_index_in_block |-> trial_info.trial_index_in_block,
             block_id |-> trial_info.block_id,
             trial_type |-> trial_info.trial_type,
             delay_ms |-> trial_info.delay_ms,
             scheduled_delay_ms |-> trial_info.delay_ms,
             t_click_ms |-> SinceStart(e.click_time, e.trial_start_time),
             t_tone_ms |-> SinceStart(e.tone_time, e.trial_start_time),
             boundary_cross_time_ms |-> SinceStart(e.boundary_cross_time, e.trial_start_time),
             soa_rating |-> soa_rating,
             sigma |-> trial_info.sigma,
             response_time_ms |-> t - e.trial_start_time]
    IN  [exp |-> [e EXCEPT !.pc = "next_trial", !.soa_rating = soa_rating,
                           !.i = @ + 1, !.current_trial_index = e.i + 1],
         logger |-> add_trial(lg, trial_data),
         now |-> t + InterTrialMs]

\* run_trial from line 327 on, entered at clock reading t: the wait after the
\* tone, then the rating loop (the slider is reset) or, in a practice or
\* learning block, the record of the trial
AfterSound(e, lg, t) ==
    LET t1 == t + PostToneWaitMs
    IN  IF e.trials[e.i + 1].block_id \notin {"practice", "learning"}
        THEN [exp |-> [e EXCEPT !.pc = "rating", !.rating = None], logger |-> lg, now |-> t1]
        ELSE RecordTrial(e, lg, t1, None)

\* the boundary crossed at every left-to-right move, crossed before or not
CrossingUnlatched(e, current_x) ==
    /\ e.prev_mouse_x # None
    /\ e.prev_mouse_x[1] < BOUNDARY_X
    /\ current_x >= BOUNDARY_X

\* lines 254-255: the first left-to-right move over the boundary in the trial
Crossing(e, current_x) ==
    /\ ~e.boundary_crossed
    /\ e.prev_mouse_x # None
    /\ e.prev_mouse_x[1] < BOUNDARY_X
    /\ current_x >= BOUNDARY_X

\* a click that counts wherever the cursor is, the boundary crossed or not
ValidClickAnywhere(e, x, button) == button

\* a click that counts wherever the cursor is once the boundary is crossed
ValidClickOffTarget(e, x, button) == button /\ e.boundary_crossed

\* lines 266-271: the left button down, the cursor in the target circle and
\* the boundary crossed
ValidClick(e, x, button) ==
    /\ button
    /\ Abs(x - TARGET_X) <= TARGET_RADIUS
    /\ e.boundary_crossed

\* one pass of the moving loop (lines 243-303) with the mouse at x and its left
\* button down or not; a valid click ends the pass inside the core.wait(0.2)
\* of line 290
MovingFrame(x, button, pressed) ==
    /\ exp.pc = "moving"
    /\ LET trial_info == exp.trials[exp.i + 1]
           t1 == now + FrameMs
           current_x == x
           crossing == Crossing(exp, current_x)
           pretone_now == crossing /\ trial_info.trial_type = "Pre-tone"
           r1 == IF pretone_now
                 THEN PlayImmediately(audio, last, t1)
                 ELSE [audio |-> audio, value |-> FALSE, last |-> last]
           e1 == [exp EXCEPT !.boundary_crossed = @ \/ crossing,
                             !.boundary_cross_time = IF crossing THEN Some(t1) ELSE @,
                             !.tone_time = IF pretone_now THEN Some(t1) ELSE @,
                             !.prev_mouse_x = Some(current_x)]
           clicked == ValidClick(e1, x, button)
       IN  IF clicked
           THEN LET click_time == t1
                    r2 == IF trial_info.trial_type = "Active"
                          THEN ScheduleTone(r1.audio, r1.last, t1,
                                            trial_info.delay_ms[1], click_time)
                          ELSE r1
                IN  /\ exp' = [e1 EXCEPT !.click_time = Some(click_time),
                                         !.trial_state = Some("waiting_sound"),
                                         !.pc = "click_wait",
                                         !.wake = t1 + FrameMs + ClickWaitMs]
                    /\ audio' = r2.audio
                    /\ last' = r2.last
                    /\ now' = t1 + FrameMs
                    /\ UNCHANGED keys
           ELSE LET r2 == IF trial_info.trial_type = "Active"
                          THEN PlayIfReady(r1.audio, r1.last, t1)
                          ELSE r1
                    e2 == [e1 EXCEPT !.tone_time = IF r2.value THEN r2.audio.actual_play_time
                                                   ELSE @,
                                     !.idle = @ + 1]
                IN  /\ exp.idle < exp.budget
                    /\ exp' = IF HasKey(Read(pressed, t1), "escape") THEN Quit(e2, "moving")
                              ELSE e2
                    /\ audio' = r2.audio
                    /\ last' = r2.last
                    /\ now' = t1
                    /\ keys' = {}
    /\ UNCHANGED <<calls, tt, gw, eps, np_random, sorter, numpy_nan_check, blk, logger, shuf, block3, soa, seq>>

\* the rest of the pass in which the target was clicked (lines 290-303), from
\* the return of core.wait(0.2) on, and the lines after the loop
ClickWaitReturns(pressed) ==
    /\ exp.pc = "click_wait"
    /\ LET trial_info == exp.trials[exp.i + 1]
           t1 == exp.wake
           r == IF trial_info.trial_type = "Active"
                THEN PlayIfReady(audio, last, t1)
                ELSE [audio |-> audio, value |-> FALSE, last |-> last]
           e1 == [exp EXCEPT !.tone_time = IF r.value THEN r.audio.actual_play_time ELSE @]
       IN  /\ audio' = r.audio
           /\ last' = r.last
           /\ keys' = {}
           /\ IF HasKey(Read(pressed, t1), "escape")
              THEN /\ exp' = Quit(e1, "moving")
                   /\ now' = t1
                   /\ UNCHANGED logger
              ELSE IF trial_info.trial_type = "Active" /\ e1.tone_time = None
                   THEN /\ exp' = [e1 EXCEPT !.pc = "waiting_sound"]
                        /\ now' = t1
                        /\ UNCHANGED logger
                   ELSE LET a == AfterSound(e1, logger, t1)
                        IN  exp' = a.exp /\ logger' = a.logger /\ now' = a.now
    /\ UNCHANGED <<calls, tt, gw, eps, np_random, sorter, numpy_nan_check, blk, shuf, block3, soa, seq>>

\* a timeout after half the time
TimedOutHalfway(t, click_time) == 2 * (t - click_time) > SoundTimeoutMs

\* line 319: core.getTime() - self.click_time > 2.0
TimedOut(t, click_time) == t - click_time > SoundTimeoutMs

\* one pass of the loop that waits for the tone (lines 307-324), and the lines
\* after the loop when the pass ends it
WaitingSoundFrame(pressed) ==
    /\ exp.pc = "waiting_sound"
    /\ LET t1 == now + FrameMs
           r == PlayIfReady(audio, last, t1)
           e1 == [exp EXCEPT !.tone_time = IF r.value THEN r.audio.actual_play_time ELSE @]
           timeout == TimedOut(t1, exp.click_time[1])
           escape == ~timeout /\ HasKey(Read(pressed, t1), "escape")
       IN  /\ audio' = r.audio
           /\ last' = r.last
           /\ keys' = IF timeout THEN Read(pressed, t1) ELSE {}
           /\ IF escape
              THEN /\ exp' = Quit(e1, "waiting_sound")
                   /\ now' = t1
                   /\ UNCHANGED logger
              ELSE IF ~timeout /\ e1.tone_time = None
                   THEN /\ exp' = e1
                        /\ now' = t1
                        /\ UNCHANGED logger
                   ELSE LET a == AfterSound(e1, logger, t1)
                        IN  exp' = a.exp /\ logger' = a.logger /\ now' = a.now
    /\ UNCHANGED <<calls, tt, gw, eps, np_random, sorter, numpy_nan_check, blk, shuf, block3, soa, seq>>

\* one pass of the loop of get_soa_rating (lines 367-388), in which the
\* participant sets the slider (set_rating) or leaves it, and the lines of
\* run_trial after the call when the pass ends the loop
RatingFrame(set_rating, pressed) ==
    /\ exp.pc = "rating"
    /\ LET t1 == now + FrameMs
           rating == IF set_rating # None THEN set_rating ELSE exp.rating
           read == Read(pressed, t1)
           responded == HasKey(read, "space") /\ rating # None
           e1 == [exp EXCEPT !.rating = rating, !.idle = IF responded THEN @ ELSE @ + 1]
       IN  /\ responded \/ exp.idle < exp.budget
           /\ keys' = {}
           /\ IF HasKey(read, "escape")
              THEN /\ exp' = Quit(e1, "rating")
                   /\ now' = t1
                   /\ UNCHANGED logger
              ELSE IF ~responded
                   THEN /\ exp' = e1
                        /\ now' = t1
                        /\ UNCHANGED logger
                   ELSE LET a == RecordTrial(e1, logger, t1, rating)
                        IN  exp' = a.exp /\ logger' = a.logger /\ now' = a.now
    /\ UNCHANGED <<calls, tt, gw, eps, np_random, sorter, audio, last, numpy_nan_check, blk, shuf, block3, soa, seq>>

RunInit ==
    /\ exp \in {Experiment(seed, preset) : seed \in RunSeeds, preset \in RunPresets}
    /\ logger = IdleLogger
    /\ keys = {}
    /\ block3 = IdleBlock3
    /\ soa = IdleSoA
    /\ seq = IdleSeq
    /\ shuf = IdleShuffle
    /\ audio = IdleAudio
    /\ now = 0
    /\ last = IdleLast
    /\ calls = [c \in Callers |-> IdleCall]
    /\ tt = IdleTypes
    /\ gw = IdleWeights
    /\ eps = IdleEps
    /\ np_random = 0
    /\ sorter = IdleSorter
    /\ numpy_nan_check = TRUE
    /\ blk = IdleBlock

RunNext ==
    \/ \E name \in KeyNames : PressKey(name)
    \/ \E late_escape \in BOOLEAN : RunBegin(late_escape)
    \/ \E late_escape \in BOOLEAN : NextTrial(late_escape)
    \/ \E x \in MouseXs, button \in BOOLEAN, pressed \in SUBSET KeyNames :
            WaitingStartFrame(x, button, pressed)
    \/ \E x \in MouseXs, button \in BOOLEAN, pressed \in SUBSET KeyNames :
            MovingFrame(x, button, pressed)
    \/ \E pressed \in SUBSET KeyNames : ClickWaitReturns(pressed)
    \/ \E pressed \in SUBSET KeyNames : WaitingSoundFrame(pressed)
    \/ \E set_rating \in {None} \cup {Some(v) : v \in RatingValues},
          pressed \in SUBSET KeyNames : RatingFrame(set_rating, pressed)

RunSpec == RunInit /\ [][RunNext]_vars

\* ------------------------------------------------------------------ create_block_trials, called alone
MaxBlockN == 4          \* blocks of 0 .. MaxBlockN trials
MaxBlockSeed == 3       \* generators seeded 0 .. MaxBlockSeed

\* 'sigma' entries of a block: None as in the presets' fixed and discrete
\* blocks, or a width
BlockSigmas == {None, Some(50), Some(150)}
\* 'fixed_delay' entries
BlockFixed == {300}
\* 'discrete_set' entries
BlockDiscrete == {<<0, 400>>}
\* 'uniform_range' entries, (min_delay, max_delay)
BlockUniform == {<<498, 500>>}
\* pretone_ratio arguments, in hundredths
BlockRatios == {0, PRETONE_RATIO, 50}

\* a block specification: the keys every block has, and any of the mode keys
BlockInfo(n_trials, sigma, fixed, discrete, uniform) ==
    [name |-> "block", n_trials |-> n_trials, sigma |-> sigma]
        @@ (IF fixed = None THEN <<>> ELSE [fixed_delay |-> fixed[1]])
        @@ (IF discrete = None THEN <<>> ELSE [discrete_set |-> discrete[1]])
        @@ (IF uniform = None THEN <<>> ELSE [uniform_range |-> uniform[1]])

BlockInfos ==
    {BlockInfo(n, sigma, fixed, discrete, uniform) :
        n \in 0..MaxBlockN,
        sigma \in BlockSigmas,
        fixed \in {None} \cup {Some(v) : v \in BlockFixed},
        discrete \in {None} \cup {Some(v) : v \in BlockDiscrete},
        uniform \in {None} \cup {Some(v) : v \in BlockUniform}}

\* a caller about to call create_block_trials on a generator it has just built
BlockInit ==
    /\ blk \in {[pc |-> "ready", block_id |-> "block", block_info |-> b,
                 pretone_ratio |-> r, seed |-> s] :
                    b \in BlockInfos, r \in BlockRatios, s \in 0..MaxBlockSeed}
    /\ calls = [c \in Callers |-> IdleCall]
    /\ tt = IdleTypes
    /\ gw = IdleWeights
    /\ eps = IdleEps
    /\ np_random = 0
    /\ sorter = IdleSorter
    /\ audio = IdleAudio
    /\ now = 0
    /\ last = IdleLast
    /\ numpy_nan_check = TRUE
    /\ exp = IdleExperiment
    /\ logger = IdleLogger
    /\ keys = {}
    /\ block3 = IdleBlock3
    /\ soa = IdleSoA
    /\ seq = IdleSeq
    /\ shuf = IdleShuffle

\* create_block_trials(block_id, RandomGenerator(seed), block_info, pretone_ratio);
\* with the returned trials are kept the locals delays (lines 114-127) and
\* trial_types (line 130) of the call, the delays in the order they were drawn
\* (sampled) and the generator as it is after line 127 (delays_rng)
CallCreateBlockTrials ==
    /\ blk.pc = "ready"
    /\ LET rng == RandomGenerator(blk.seed)
           r == create_block_trials(blk.block_id, rng, blk.block_info, blk.pretone_ratio)
           delays == BlockDelays(blk.block_info, rng)
           trial_types == assign_trial_types(blk.block_info.n_trials, blk.pretone_ratio,
                                             delays.rng)
       IN  blk' = [pc |-> IF r.raised = "" THEN "returned" ELSE "raised",
                   block_id |-> blk.block_id,
                   block_info |-> blk.block_info,
                   pretone_ratio |-> blk.pretone_ratio,
                   seed |-> blk.seed,
                   raised |-> r.raised,
                   trials |-> r.value,
                   delays |-> IF r.raised = "" THEN delays.value ELSE <<>>,
                   sampled |-> IF r.raised = "" THEN delays.sampled ELSE <<>>,
                   trial_types |-> IF r.raised = "" THEN trial_types.value ELSE <<>>,
                   delays_rng |-> delays.rng,
                   rng |-> r.rng]
    /\ UNCHANGED <<calls, tt, gw, eps, np_random, sorter, audio, now, last,
                   numpy_nan_check, exp, logger, keys, shuf, block3, soa, seq>>

BlockNext == CallCreateBlockTrials

BlockSpec == BlockInit /\ [][BlockNext]_vars

\* ------------------------------------------------------------------ RandomGenerator.shuffle, called alone
MaxShufLen == 4         \* lists of 0 .. MaxShufLen elements
MaxShufVal == 2         \* with elements 0 .. MaxShufVal

\* a caller holds a list and a generator in any state
ShufInit ==
    /\ shuf \in {[pc |-> "ready", arr |-> arr, state |-> state] :
                    arr \in SeqsUpTo(0..MaxShufVal, MaxShufLen), state \in 0..(RngMod - 1)}
    /\ calls = [c \in Callers |-> IdleCall]
    /\ tt = IdleTypes
    /\ gw = IdleWeights
    /\ eps = IdleEps
    /\ np_random = 0
    /\ sorter = IdleSorter
    /\ audio = IdleAudio
    /\ now = 0
    /\ last = IdleLast
    /\ numpy_nan_check = TRUE
    /\ blk = IdleBlock
    /\ exp = IdleExperiment
    /\ logger = IdleLogger
    /\ keys = {}
    /\ block3 = IdleBlock3
    /\ soa = IdleSoA
    /\ seq = IdleSeq

\* rng.shuffle(arr) on a generator in the given state
CallShuffle ==
    /\ shuf.pc = "ready"
    /\ LET rng == [RandomGenerator(0) EXCEPT !.state = shuf.state]
           r == shuffle(rng, shuf.arr)
       IN  shuf' = [pc |-> "returned",
                    arr |-> shuf.arr,
                    state |-> shuf.state,
                    arr_after |-> r.arr,
                    result |-> r.value,
                    rng |-> r.rng]
    /\ UNCHANGED <<calls, tt, gw, eps, np_random, sorter, audio, now, last, numpy_nan_check,
                   blk, exp, logger, keys, block3, soa, seq>>

ShufNext == CallShuffle

ShufSpec == ShufInit /\ [][ShufNext]_vars

\* ------------------------------------------------------------------ a run on an experimenter's own blocks
\* config.EXPERIMENT_PRESETS is the experimenter's table and fixed_delay takes
\* any number of ms: a preset of three one-trial blocks, the second with a delay
\* longer than the timeout of the loop that waits for the tone, the first with
\* the id 'learning' whose trials are not rated
CustomConfig ==
    [blocks |->
        [learning |-> [n_trials |-> 1, sigma |-> None, name |-> "learning", fixed_delay |-> 0],
         long |-> [n_trials |-> 1, sigma |-> None, name |-> "long", fixed_delay |-> 2500],
         test |-> [n_trials |-> 1, sigma |-> None, name |-> "test", fixed_delay |-> 100]],
     block_order |-> <<"learning", "long", "test">>,
     pretone_ratio |-> 0]

\* create_all_trials run on that table
CustomPlan(seed) ==
    BlockLoop(CustomConfig.blocks, CustomConfig.block_order, CustomConfig.pretone_ratio,
              1, RandomGenerator(seed), 0, <<>>).value

CustomRunInit ==
    /\ exp \in {ExperimentWith(seed, Some("custom"), CustomPlan(seed)) : seed \in RunSeeds}
    /\ logger = IdleLogger
    /\ keys = {}
    /\ block3 = IdleBlock3
    /\ soa = IdleSoA
    /\ seq = IdleSeq
    /\ shuf = IdleShuffle
    /\ audio = IdleAudio
    /\ now = 0
    /\ last = IdleLast
    /\ calls = [c \in Callers |-> IdleCall]
    /\ tt = IdleTypes
    /\ gw = IdleWeights
    /\ eps = IdleEps
    /\ np_random = 0
    /\ sorter = IdleSorter
    /\ numpy_nan_check = TRUE
    /\ blk = IdleBlock

CustomRunSpec == CustomRunInit /\ [][RunNext]_vars

\* ------------------------------------------------------------------ one Pre-tone and one Active trial
MaxTrialIdle == 3       \* passes of that run that do not end the loop they belong to

\* a table with a block of two trials, half of them Pre-tone, whose delay is
\* just below the timeout of the loop that waits for the tone, and a block of
\* one trial whose delay is above it
TrialConfig ==
    [blocks |->
        [test |-> [n_trials |-> 2, sigma |-> None, name |-> "test", fixed_delay |-> 1999],
         long |-> [n_trials |-> 1, sigma |-> None, name |-> "long", fixed_delay |-> 2500]],
     block_order |-> <<"test", "long">>,
     pretone_ratio |-> 50]

\* create_all_trials run on that table
TrialPlan(seed) ==
    BlockLoop(TrialConfig.blocks, TrialConfig.block_order, TrialConfig.pretone_ratio,
              1, RandomGenerator(seed), 0, <<>>).value

TrialRunInit ==
    /\ exp \in {[ExperimentWith(seed, Some("trial"), TrialPlan(seed))
                    EXCEPT !.budget = MaxTrialIdle] : seed \in RunSeeds}
    /\ logger = IdleLogger
    /\ keys = {}
    /\ block3 = IdleBlock3
    /\ soa = IdleSoA
    /\ seq = IdleSeq
    /\ shuf = IdleShuffle
    /\ audio = IdleAudio
    /\ now = 0
    /\ last = IdleLast
    /\ calls = [c \in Callers |-> IdleCall]
    /\ tt = IdleTypes
    /\ gw = IdleWeights
    /\ eps = IdleEps
    /\ np_random = 0
    /\ sorter = IdleSorter
    /\ numpy_nan_check = TRUE
    /\ blk = IdleBlock

TrialRunSpec == TrialRunInit /\ [][RunNext]_vars

\* ------------------------------------------------------------------ presets that differ in mu_0 and delay_set
\* the mu_0 and delay_set entries tried
\* the seeds tried: the default, and one whose plan has delays above the
\* wait of line 290
FieldsSeeds == {DEFAULT_SEED, 5}
FieldsMus == {MU_0, 250}
FieldsDelaySets == {DELAY_SET, <<0>>}

\* a preset with one Gaussian block of three trials, one of them Pre-tone
FieldsConfig(mu_0, delay_set) ==
    [blocks |-> [gauss |-> [n_trials |-> 3, sigma |-> Some(150), name |-> "gauss"]],
     block_order |-> <<"gauss">>,
     mu_0 |-> mu_0,
     delay_set |-> delay_set,
     pretone_ratio |-> 34]

\* utils.py lines 165-168: what create_all_trials reads of the preset's entry
ResolveConfig(preset_config) ==
    [blocks |-> preset_config.blocks,
     block_order |-> preset_config.block_order,
     pretone_ratio |-> IF "pretone_ratio" \in DOMAIN preset_config
                       THEN preset_config.pretone_ratio
                       ELSE PRETONE_RATIO]

\* create_all_trials run on that entry
FieldsPlan(preset_config, seed) ==
    LET cfg == ResolveConfig(preset_config)
    IN  BlockLoop(cfg.blocks, cfg.block_order, cfg.pretone_ratio, 1, RandomGenerator(seed),
                  0, <<>>).value

FieldsRunInit ==
    /\ exp \in {[ExperimentWith(seed, Some("fields"), FieldsPlan(FieldsConfig(m, ds), seed))
                    EXCEPT !.preset_config = Some(FieldsConfig(m, ds))] :
                seed \in FieldsSeeds, m \in FieldsMus, ds \in FieldsDelaySets}
    /\ logger = IdleLogger
    /\ keys = {}
    /\ block3 = IdleBlock3
    /\ soa = IdleSoA
    /\ seq = IdleSeq
    /\ shuf = IdleShuffle
    /\ audio = IdleAudio
    /\ now = 0
    /\ last = IdleLast
    /\ calls = [c \in Callers |-> IdleCall]
    /\ tt = IdleTypes
    /\ gw = IdleWeights
    /\ eps = IdleEps
    /\ np_random = 0
    /\ sorter = IdleSorter
    /\ numpy_nan_check = TRUE
    /\ blk = IdleBlock

FieldsRunSpec == FieldsRunInit /\ [][RunNext]_vars

\* ------------------------------------------------------------------ experiment_continuous_rating.py: the trial sequence
MaxMuDelay == 12        \* mu_delay is tried from -MaxMuDelay to MaxMuDelay

\* the condition given in the dialog, and one that is none of 'A', 'B', 'C'
SeqConditions == {"A", "B", "C", "D"}

\* lines 732-738, 758-764, 767-773: the trials first .. stop of one step
StepTrials(first, stop, step, task_delay, ans_delay) ==
    [k \in 1..(stop - first + 1) |->
        [trial_num |-> first + k - 1, step |-> step,
         task_delay |-> task_delay, ans_delay |-> ans_delay]]

\* the delays of Step 2 with those of conditions B and C exchanged
InterventionDelaysSwapped(condition, mu_delay) ==
    IF condition = "A" THEN <<0, 0>>
    ELSE IF condition = "B" THEN <<mu_delay, mu_delay>>
    ELSE IF condition = "C" THEN <<mu_delay, 0>>
    ELSE None

\* lines 741-753: (task_delay, ans_delay) of Step 2; no branch assigns them
\* for another condition
InterventionDelays(condition, mu_delay) ==
    IF condition = "A" THEN <<0, 0>>
    ELSE IF condition = "B" THEN <<mu_delay, 0>>
    ELSE IF condition = "C" THEN <<mu_delay, mu_delay>>
    ELSE None

\* _generate_trial_sequence() of an experiment with the given condition and
\* mu_delay; the loop of line 755 reads task_delay, unbound when no branch
\* was taken
GenerateTrialSequence(condition, mu_delay) ==
    LET d == InterventionDelays(condition, mu_delay)
    IN  IF d = None
        THEN [raised |-> "UnboundLocalError", value |-> <<>>]
        ELSE [raised |-> "",
              value |-> StepTrials(1, 20, "Step1_Baseline", 0, 0)
                        \o StepTrials(21, 40, "Step2_Intervention", d[1], d[2])
                        \o StepTrials(41, 60, "Step3_Washout", 0, 0)]

SeqInit ==
    /\ seq \in {[pc |-> "ready", condition |-> c, mu_delay |-> m, raised |-> "",
                 trial_sequence |-> <<>>] :
                    c \in SeqConditions, m \in (0 - MaxMuDelay)..MaxMuDelay}
    /\ calls = [c \in Callers |-> IdleCall]
    /\ tt = IdleTypes
    /\ gw = IdleWeights
    /\ eps = IdleEps
    /\ np_random = 0
    /\ sorter = IdleSorter
    /\ audio = IdleAudio
    /\ now = 0
    /\ last = IdleLast
    /\ numpy_nan_check = TRUE
    /\ blk = IdleBlock
    /\ exp = IdleExperiment
    /\ logger = IdleLogger
    /\ keys = {}
    /\ shuf = IdleShuffle
    /\ block3 = IdleBlock3
    /\ soa = IdleSoA

\* line 684: trial_sequence = self._generate_trial_sequence()
_generate_trial_sequence ==
    /\ seq.pc = "ready"
    /\ LET r == GenerateTrialSequence(seq.condition, seq.mu_delay)
       IN  seq' = [seq EXCEPT !.pc = IF r.raised = "" THEN "returned" ELSE "raised",
                              !.raised = r.raised,
                              !.trial_sequence = r.value]
    /\ UNCHANGED <<calls, tt, gw, eps, np_random, sorter, audio, now, last, numpy_nan_check,
                   blk, exp, logger, keys, shuf, block3, soa>>

SeqNext == _generate_trial_sequence

SeqSpec == SeqInit /\ [][SeqNext]_vars

\* ------------------------------------------------------------------ experiment_bamba2020.py: run_block3
\* a delay argument of run_trial: a number of ms, or the string 'negative'
Ms(d) == [negative |-> FALSE, ms |-> d]
Negative == [negative |-> TRUE, ms |-> 0]

\* lines 22-24 and 35-36
TARGET_DELAYS == <<0, 50, 100, 150, 200, 250, 300, 400, 500>>
CATCH_DELAYS == <<Negative, Ms(1000)>>
N_TRIALS_BLOCK3_TARGET == 1
N_TRIALS_BLOCK3_CATCH == 1

\* list * n
RECURSIVE Times(_, _)
Times(s, n) == IF n <= 0 THEN <<>> ELSE s \o Times(s, n - 1)

\* list.insert(insert_pos, x), insert_pos counted from 0
Insert(s, insert_pos, x) ==
    SubSeq(s, 1, insert_pos) \o <<x>> \o SubSeq(s, insert_pos + 1, Len(s))

\* lines 485-487: each catch trial inserted at a position drawn from the
\* module-level generator, from the k-th catch trial on
RECURSIVE InsertCatches(_, _, _, _)
InsertCatches(all_delays, catch_trials, k, state) ==
    IF k > Len(catch_trials)
    THEN [value |-> all_delays, state |-> state]
    ELSE LET insert_pos == state % (Len(all_delays) + 1)
         IN  InsertCatches(Insert(all_delays, insert_pos, catch_trials[k]), catch_trials,
                           k + 1, RngNext(state))

\* line 491: delay in CATCH_DELAYS
IsCatch(delay) == \E k \in 1..Len(CATCH_DELAYS) : CATCH_DELAYS[k] = delay

Block3Init ==
    /\ block3 = [pc |-> "called", sorted_targets |-> <<>>, all_delays |-> <<>>, i |-> 0,
                 presented |-> <<>>]
    /\ np_random \in 0..(RngMod - 1)
    /\ sorter = IdleSorter
    /\ calls = [c \in Callers |-> IdleCall]
    /\ tt = IdleTypes
    /\ gw = IdleWeights
    /\ eps = IdleEps
    /\ audio = IdleAudio
    /\ now = 0
    /\ last = IdleLast
    /\ numpy_nan_check = TRUE
    /\ blk = IdleBlock
    /\ exp = IdleExperiment
    /\ logger = IdleLogger
    /\ keys = {}
    /\ shuf = IdleShuffle
    /\ soa = IdleSoA
    /\ seq = IdleSeq

\* run_block3 up to the call of line 480 (lines 464-480): the instruction,
\* left with space or, when an escape follows (late_escape), with quit(), then
\* the call of _sort_delays_with_constraint on the target trials
Block3Begin(late_escape) ==
    /\ block3.pc = "called"
    /\ IF late_escape
       THEN /\ block3' = [block3 EXCEPT !.pc = "exited"]
            /\ UNCHANGED sorter
       ELSE LET target_trials == Times(TARGET_DELAYS, N_TRIALS_BLOCK3_TARGET)
            IN  /\ block3' = [block3 EXCEPT !.pc = "sorting"]
                /\ sorter' = [pc |-> "called", delays |-> target_trials, max_diff |-> 250,
                              shuffled |-> <<>>, raised |-> "", result |-> <<>>]
    /\ UNCHANGED <<calls, tt, gw, eps, np_random, audio, now, last, numpy_nan_check, blk, exp,
                   logger, keys, shuf, soa, seq>>

\* lines 480-487: the sorted targets are back; the catch trials are inserted
Block3Insert ==
    /\ block3.pc = "sorting"
    /\ sorter.pc = "returned"
    /\ LET sorted_targets == sorter.result
           catch_trials == Times(CATCH_DELAYS, N_TRIALS_BLOCK3_CATCH)
           r == InsertCatches([k \in DOMAIN sorted_targets |-> Ms(sorted_targets[k])],
                              catch_trials, 1, np_random)
       IN  /\ block3' = [block3 EXCEPT !.pc = "presenting",
                                       !.sorted_targets = sorted_targets,
                                       !.all_delays = r.value]
           /\ np_random' = r.state
    /\ UNCHANGED <<calls, tt, gw, eps, sorter, audio, now, last, numpy_nan_check, blk, exp,
                   logger, keys, shuf, soa, seq>>

\* lines 489-497: one pass of the loop over all_delays: the trial is run with
\* its number, its delay and show_rating, and its record kept, or quit() is
\* called in it (escape)
Block3Present(escape) ==
    /\ block3.pc = "presenting"
    /\ IF block3.i >= Len(block3.all_delays)
       THEN /\ ~escape
            /\ block3' = [block3 EXCEPT !.pc = "returned"]
       ELSE LET delay == block3.all_delays[block3.i + 1]
                is_catch == IsCatch(delay)
                show_rating == ~is_catch
            IN  block3' = IF escape
                          THEN [block3 EXCEPT !.pc = "exited"]
                          ELSE [block3 EXCEPT !.i = @ + 1,
                                              !.presented = Append(@,
                                                    [block_type |-> "Block3",
                                                     trial_num |-> block3.i + 1,
                                                     delay_ms |-> delay,
                                                     show_rating |-> show_rating])]
    /\ UNCHANGED <<calls, tt, gw, eps, np_random, sorter, audio, now, last, numpy_nan_check,
                   blk, exp, logger, keys, shuf, soa, seq>>

Block3Next ==
    \/ \E late_escape \in BOOLEAN : Block3Begin(late_escape)
    \/ SortCall
    \/ SortIteration
    \/ Block3Insert
    \/ \E escape \in BOOLEAN : Block3Present(escape)

Block3Spec == Block3Init /\ [][Block3Next]_vars

\* ------------------------------------------------------------------ experiment_bamba2020.py: run_trial
MaxSoAPasses == 3       \* passes of one trial's loops that do not end the loop

\* lines 41-43 and 50
BAR_WIDTH == 700
BAR_X == 0
GOAL_AREA_WIDTH == BAR_WIDTH \div 5

\* the wait after the loop (line 352), in ms
SoAPostWaitMs == 200

\* mouse positions tried: left of the bar, its centre, the left edge of the goal
\* area, right of the bar
SoAMouseXs == {0 - 400, BAR_X, BAR_X + BAR_WIDTH \div 2 - GOAL_AREA_WIDTH, 400}
\* delay arguments tried
SoADelays == {Negative, Ms(0), Ms(50), Ms(1000)}
\* the clock reading at the call
SoAStartMs == 1000

Min(a, b) == IF a < b THEN a ELSE b

\* the tone of a negative trial played in every pass with the cursor in the
\* goal area
NegativeTriggerEveryPass(s, cursor_x, goal_left_edge) ==
    /\ s.delay = Negative
    /\ cursor_x >= goal_left_edge

\* lines 320-321: delay == 'negative' and not tone_played, the cursor at or
\* past the left edge of the goal area and not trigger_passed
NegativeTrigger(s, cursor_x, goal_left_edge) ==
    /\ s.delay = Negative
    /\ ~s.tone_played
    /\ cursor_x >= goal_left_edge
    /\ ~s.trigger_passed

\* run_trial(block_type, trial_num, delay, show_rating) up to the head of its
\* loop (lines 275-303), entered at clock reading t
SoATrial(block_type, trial_num, delay, show_rating, t) ==
    [pc |-> "loop",
     block_type |-> block_type,
     trial_num |-> trial_num,
     delay |-> delay,
     show_rating |-> show_rating,
     trial_start |-> t,
     cursor_x |-> BAR_X,
     clicked |-> FALSE,
     tone_played |-> FALSE,
     click_time |-> None,
     tone_time |-> None,
     trigger_passed |-> FALSE,
     plays |-> 0,
     passes |-> 0,
     soa_rating |-> None,
     trial_data |-> None]

SoATrialInit ==
    /\ soa \in {SoATrial("Block3", 1, delay, show_rating, SoAStartMs) :
                    delay \in SoADelays, show_rating \in BOOLEAN}
    /\ now = SoAStartMs
    /\ block3 = IdleBlock3
    /\ seq = IdleSeq
    /\ np_random = 0
    /\ sorter = IdleSorter
    /\ calls = [c \in Callers |-> IdleCall]
    /\ tt = IdleTypes
    /\ gw = IdleWeights
    /\ eps = IdleEps
    /\ audio = IdleAudio
    /\ last = IdleLast
    /\ numpy_nan_check = TRUE
    /\ blk = IdleBlock
    /\ exp = IdleExperiment
    /\ logger = IdleLogger
    /\ keys = {}
    /\ shuf = IdleShuffle

\* lines 362-372: the record of the trial
SoATrialData(s, soa_rating) ==
    [block_type |-> s.block_type,
     trial_num |-> s.trial_num,
     delay_ms |-> s.delay,
     click_time |-> SinceStart(s.click_time, s.trial_start),
     tone_time |-> SinceStart(s.tone_time, s.trial_start),
     soa_rating |-> soa_rating]

\* one pass of the loop of lines 305-349 with the mouse at x, its left button
\* down or not, and an escape in the event buffer or not; the pass that ends
\* the loop goes on to the wait of line 352 and, without a rating, to the
\* return
SoATrialPass(x, button, escape) ==
    /\ soa.pc = "loop"
    /\ LET left_edge == BAR_X - BAR_WIDTH \div 2
           right_edge == BAR_X + BAR_WIDTH \div 2
           right_threshold == BAR_X + BAR_WIDTH \div 2 - GOAL_AREA_WIDTH
           goal_left_edge == right_threshold
           cursor_x == Max(left_edge, Min(right_edge, x))
           trigger == NegativeTrigger(soa, cursor_x, goal_left_edge)
           s1 == IF trigger
                 THEN [soa EXCEPT !.trigger_passed = TRUE, !.plays = @ + 1,
                                  !.tone_time = Some(now), !.tone_played = TRUE,
                                  !.cursor_x = cursor_x]
                 ELSE [soa EXCEPT !.cursor_x = cursor_x]
           t1 == now + FrameMs
           clicked == button /\ cursor_x >= right_threshold
           t2 == IF clicked /\ soa.delay # Negative THEN t1 + soa.delay.ms ELSE t1
           s2 == IF ~clicked
                 THEN [s1 EXCEPT !.passes = @ + 1]
                 ELSE IF soa.delay # Negative
                      THEN [s1 EXCEPT !.clicked = TRUE, !.click_time = Some(t1),
                                      !.plays = @ + 1, !.tone_time = Some(t2),
                                      !.tone_played = TRUE]
                      ELSE [s1 EXCEPT !.clicked = TRUE, !.click_time = Some(t1)]
       IN  /\ clicked \/ soa.passes < MaxSoAPasses
           /\ IF escape
              THEN /\ soa' = [s2 EXCEPT !.pc = "exited"]
                   /\ now' = t2
              ELSE IF ~clicked
                   THEN /\ soa' = s2
                        /\ now' = t2
                   ELSE /\ now' = t2 + SoAPostWaitMs
                        /\ soa' = IF soa.show_rating
                                  THEN [s2 EXCEPT !.pc = "rating"]
                                  ELSE [s2 EXCEPT !.pc = "returned",
                                                  !.trial_data = Some(SoATrialData(s2, None))]
    /\ UNCHANGED <<calls, tt, gw, eps, np_random, sorter, audio, last, numpy_nan_check, blk, exp,
                   logger, keys, shuf, block3, seq>>

\* one pass of the loop of get_soa_rating (lines 382-397), with space and
\* escape among the keys read or not, and the slider's rating
SoARatingPass(space, escape, rating) ==
    /\ soa.pc = "rating"
    /\ LET responded == space /\ rating # None
       IN  /\ responded \/ escape \/ soa.passes < MaxSoAPasses
           /\ now' = now + FrameMs
           /\ soa' = IF escape
                     THEN [soa EXCEPT !.pc = "exited"]
                     ELSE IF ~responded
                          THEN [soa EXCEPT !.passes = @ + 1]
                          ELSE [soa EXCEPT !.pc = "returned", !.soa_rating = rating,
                                           !.trial_data = Some(SoATrialData(soa, rating))]
    /\ UNCHANGED <<calls, tt, gw, eps, np_random, sorter, audio, last, numpy_nan_check, blk, exp,
                   logger, keys, shuf, block3, seq>>

SoATrialNext ==
    \/ \E x \in SoAMouseXs, button \in BOOLEAN, escape \in BOOLEAN : SoATrialPass(x, button, escape)
    \/ \E space \in BOOLEAN, escape \in BOOLEAN,
          rating \in {None} \cup {Some(v) : v \in RatingValues} :
            SoARatingPass(space, escape, rating)

SoATrialSpec == SoATrialInit /\ [][SoATrialNext]_vars

\* ================================================================== claims

C2_GlobalIndexContiguity ==
    \A c \in Callers :
        calls[c].pc = "returned"
        => \A i \in DOMAIN calls[c].all_trials :
                calls[c].all_trials[i].trial_index_global = i - 1

C2_Witness ==
    \E c \in Callers :
        /\ calls[c].pc = "returned"
        /\ calls[c].preset = Some("stable_volatile_stable")
        /\ Len(calls[c].all_trials) = 60
        /\ calls[c].all_trials[60].trial_index_global = 59
        /\ calls[c].all_trials[60].trial_index_in_block = 19
        /\ calls[c].all_trials[60].block_id = "stable_0ms_2"

C4_ConstrainedOrdering ==
    sorter.pc = "returned"
    => /\ SameMultiset(sorter.result, sorter.delays)
       /\ \A i \in 1..(Len(sorter.result) - 1) :
                /\ sorter.result[i] - sorter.result[i + 1] <= sorter.max_diff
                /\ sorter.result[i + 1] - sorter.result[i] <= sorter.max_diff
       /\ Len(sorter.delays) <= 1 => sorter.result = sorter.delays

C4_Witness ==
    /\ sorter.pc = "returned"
    /\ sorter.delays = <<0, 2, 1>>
    /\ sorter.max_diff = 1
    /\ sorter.result = <<2, 1, 0>>

\* no arrangement of delays keeps every adjacent pair within max_diff
NoValidOrdering(delays, max_diff) ==
    \A p \in Permutations(DOMAIN delays) :
        \E i \in 1..(Len(delays) - 1) :
            \/ delays[p[i]] - delays[p[i + 1]] > max_diff
            \/ delays[p[i + 1]] - delays[p[i]] > max_diff

\* C5 (ordering failure is bounded): when no permutation of the input satisfies
\* max_diff, the constrained shuffle leaves its loop by raising
\* NoValidOrderingFound.
C5_InfeasibleRaises ==
    [](  (sorter.pc = "loop" /\ NoValidOrdering(sorter.delays, sorter.max_diff))
      => <>(sorter.pc = "raised" /\ sorter.raised = "NoValidOrderingFound"))

\* a step that is a schedule_tone call, a step that is a play_if_ready call
ScheduleStep == last'.op = "schedule_tone" /\ (last' # last \/ audio' # audio)
PollStep == last'.op = "play_if_ready" /\ (last' # last \/ audio' # audio)

\* C6 (the scheduler fires exactly once per arm): schedule_tone(delay_ms, t0)
\* sets the fire time t0 + delay_ms; a play_if_ready whose clock reading is
\* below the pending fire time returns false and plays nothing; one whose clock
\* reading has reached it returns true, plays the tone once, records the
\* reading as the actual play time and clears the fire time; with no fire time
\* pending play_if_ready returns false and plays nothing; so between two
\* schedule_tone calls at most one play_if_ready returns true.
C6_FiresOncePerArm ==
    /\ [][ScheduleStep =>
            audio'.scheduled_time = Some(last'.reference_time + last'.delay_ms)]_vars
    /\ [][PollStep =>
            IF audio.scheduled_time # None /\ now >= audio.scheduled_time[1]
            THEN /\ last'.value = TRUE
                 /\ audio'.plays = audio.plays + 1
                 /\ audio'.actual_play_time = Some(now)
                 /\ audio'.scheduled_time = None
            ELSE /\ last'.value = FALSE
                 /\ audio' = audio]_vars
    /\ [](last.fired_since_arm <= 1)

C6_Witness ==
    /\ last.op = "play_if_ready"
    /\ last.value = TRUE
    /\ last.delay_ms = 2
    /\ last.reference_time = 1
    /\ last.at = 3
    /\ last.fired_since_arm = 1
    /\ audio.actual_play_time = Some(3)
    /\ audio.scheduled_time = None
    /\ audio.plays = 1

\* C7 (epsilon derivation): for a delay d, calculate_epsilon returns
\* (d - 200, (d - 200)^2), so 300 gives (100, 10000); for None it returns
\* (None, None).
C7_Epsilon ==
    eps.pc = "returned"
    => /\ eps.delay_ms = None => (eps.epsilon = None /\ eps.epsilon_squared = None)
       /\ eps.delay_ms # None =>
            /\ eps.epsilon = Some(eps.delay_ms[1] - 200)
            /\ eps.epsilon_squared = Some((eps.delay_ms[1] - 200) * (eps.delay_ms[1] - 200))
       /\ eps.delay_ms = Some(300) =>
            (eps.epsilon = Some(100) /\ eps.epsilon_squared = Some(10000))

C7_Witness ==
    /\ eps.pc = "returned"
    /\ eps.delay_ms = Some(100)
    /\ eps.epsilon = Some(-100)
    /\ eps.epsilon_squared = Some(10000)

\* some delay lies within FewSigma * sigma of mu
NearMu(delays, mu, sigma) ==
    \E i \in DOMAIN delays : Abs(delays[i] - mu) <= FewSigma * sigma

\* C8 (weight normalization): with sigma > 0 and a delay within a few sigma of
\* mu, gaussian_weights returns one weight per delay, none negative and none
\* NaN, a delay nearer to mu never weighing less than one farther away, and the
\* weights sum to 1 up to one rounding unit per weight.
C8_WeightNormalization ==
    (gw.pc = "returned" /\ gw.sigma > 0 /\ NearMu(gw.delays, gw.mu, gw.sigma))
    => /\ ~gw.nan
       /\ Len(gw.result) = Len(gw.delays)
       /\ \A i \in DOMAIN gw.result : gw.result[i] >= 0
       /\ \A i, j \in DOMAIN gw.result :
            Abs(gw.delays[i] - gw.mu) <= Abs(gw.delays[j] - gw.mu)
            => gw.result[i] >= gw.result[j]
       /\ Abs(SumSeq(gw.result) - WeightScale) <= Len(gw.delays)

C8_Witness ==
    /\ gw.pc = "returned"
    /\ gw.delays = <<200, 400>>
    /\ gw.mu = 250
    /\ gw.sigma = 150
    /\ ~gw.nan
    /\ gw.result[1] > gw.result[2]
    /\ gw.result[2] > 0

\* every unnormalized weight is 0 (with sigma = 0 the exponent of every delay
\* other than mu is -inf)
AllWeightsZero(delays, mu, sigma) ==
    /\ delays # <<>>
    /\ IF sigma = 0
       THEN \A i \in DOMAIN delays : delays[i] # mu
       ELSE \A i \in DOMAIN delays : Unnormalized(delays, mu, sigma)[i] = 0

\* C9 (degenerate Gaussian weights are an explicit error): when every
\* unnormalized weight is 0, gaussian_weights fails with
\* InvalidWeightConfiguration and returns no weights.
C9_DegenerateWeightsRaise ==
    (gw.pc # "ready" /\ gw.pc # "idle" /\ AllWeightsZero(gw.delays, gw.mu, gw.sigma))
    => (gw.pc = "raised" /\ gw.raised = "InvalidWeightConfiguration")

\* C10 (unknown preset is an error): create_all_trials with a non-empty preset
\* name that is no key of the preset table fails with ConfigurationMissing and
\* returns no plan.
C10_UnknownPresetRaises ==
    \A c \in Callers :
        (/\ calls[c].pc # "idle"
         /\ calls[c].preset # None
         /\ calls[c].preset # Some("")
         /\ calls[c].preset[1] \notin DOMAIN EXPERIMENT_PRESETS)
        => (/\ calls[c].pc = "raised"
            /\ calls[c].raised = "ConfigurationMissing"
            /\ calls[c].all_trials = <<>>)

\* C11 (arm is only accepted from Idle): a schedule_tone call made while a fire
\* time is pending never replaces the pending fire time by the new one: the
\* pending fire time stays (the call is refused as ScheduleMisuse) or the
\* scheduler goes back to Idle.
C11_ArmOnlyFromIdle ==
    [][(ScheduleStep /\ audio.scheduled_time # None)
        => audio'.scheduled_time \in {audio.scheduled_time, None}]_vars

\* C12 (one record per executed trial, order-stable): when the run has executed
\* k trials, the logger holds k records and the i-th record carries the
\* trial_index_global, block_id, trial_type, delay_ms and sigma of the i-th
\* plan entry.
C12_OneRecordPerTrial ==
    exp.pc # "idle"
    => /\ Len(logger.data) = exp.i
       /\ exp.i <= Len(exp.trials)
       /\ \A j \in DOMAIN logger.data :
            /\ logger.data[j].trial_index_global = exp.trials[j].trial_index_global
            /\ logger.data[j].block_id = exp.trials[j].block_id
            /\ logger.data[j].trial_type = exp.trials[j].trial_type
            /\ logger.data[j].delay_ms = exp.trials[j].delay_ms
            /\ logger.data[j].sigma = exp.trials[j].sigma

C12_Witness ==
    /\ exp.pc = "exited"
    /\ exp.quit_from = "end"
    /\ exp.preset = Some("condition2_volatile")
    /\ Len(logger.data) = 20
    /\ logger.data[20].trial_index_global = 19
    /\ \E j, k \in DOMAIN logger.data :
            /\ logger.data[j].trial_type = "Pre-tone"
            /\ logger.data[k].trial_type = "Active"
            /\ logger.data[k].delay_ms = Some(500)
            /\ j < k

\* C13 (no blocking wait while a delay elapses): the trial loop is in no
\* blocking wait while a fire time is pending, and when play_if_ready plays the
\* tone, an escape pressed since the click was pressed within the last frame:
\* every earlier one was read, and the run ended, before the tone.
C13_NoBlockingWait ==
    /\ [](exp.pc = "click_wait" => audio.scheduled_time = None)
    /\ [][(last' # last /\ last'.op = "play_if_ready" /\ last'.value = TRUE)
            => \A k \in keys :
                    (k[1] = "escape" /\ k[2] >= exp.click_time[1])
                    => last'.at - k[2] <= FrameMs]_vars

\* C14 (cancellation does not leave the scheduler armed): when the run has
\* ended by an escape read in a waiting loop of a trial, the scheduler has no
\* pending fire time, and nothing happens after the end.
C14_CancelLeavesIdle ==
    /\ [](  (exp.pc = "exited"
                /\ exp.quit_from \in {"waiting_start", "moving", "waiting_sound", "rating"})
         => audio.scheduled_time = None)
    /\ [][exp.pc = "exited" => UNCHANGED vars]_vars

\* C15: in the trials create_block_trials returns, delay_ms is None exactly on
\* the Pre-tone trials, and the Active trial at position i carries the i-th
\* value of the delay sequence generated for the block.
C15_DelayIffActive ==
    blk.pc = "returned" =>
        /\ Len(blk.trials) = blk.block_info.n_trials
        /\ Len(blk.delays) = blk.block_info.n_trials
        /\ \A i \in DOMAIN blk.trials :
              LET trial == blk.trials[i]
              IN  /\ trial.trial_type \in {"Active", "Pre-tone"}
                  /\ (trial.delay_ms = None) <=> (trial.trial_type = "Pre-tone")
                  /\ trial.trial_type = "Active" => trial.delay_ms = Some(blk.delays[i])

\* a returned block with a Pre-tone trial whose generated delay was dropped and
\* two Active trials that carry different delays
C15_Witness ==
    /\ blk.pc = "returned"
    /\ \E i, j, k \in DOMAIN blk.trials :
          /\ blk.trials[i].trial_type = "Pre-tone"
          /\ blk.trials[i].delay_ms = None
          /\ blk.delays[i] > 0
          /\ blk.trials[j].delay_ms = Some(blk.delays[j])
          /\ blk.trials[k].delay_ms = Some(blk.delays[k])
          /\ blk.delays[j] # blk.delays[k]

\* the trials of the blocks block_order[k..], by block id: n_trials of each
RECURSIVE BlockIdsFrom(_, _, _)
BlockIdsFrom(blocks, block_order, k) ==
    IF k > Len(block_order)
    THEN <<>>
    ELSE Repeat(block_order[k], blocks[block_order[k]].n_trials)
            \o BlockIdsFrom(blocks, block_order, k + 1)

\* the number of trials of the blocks block_order[1..k]
RECURSIVE TrialsUpTo(_, _, _)
TrialsUpTo(blocks, block_order, k) ==
    IF k = 0 THEN 0
    ELSE TrialsUpTo(blocks, block_order, k - 1) + blocks[block_order[k]].n_trials

\* C16: a returned plan reads, by block id, as the n_trials trials of the first
\* block of block_order, then those of the second, and so on; its length is the
\* sum of the blocks' n_trials.
C16_PlanIsConcatenation ==
    \A c \in Callers :
        calls[c].pc = "returned" =>
            LET cfg == Resolve(calls[c].preset)
                all_trials == calls[c].all_trials
            IN  /\ Len(all_trials) = TrialsUpTo(cfg.blocks, cfg.block_order, Len(cfg.block_order))
                /\ [j \in DOMAIN all_trials |-> all_trials[j].block_id]
                      = BlockIdsFrom(cfg.blocks, cfg.block_order, 1)

\* a plan of three blocks was built: 60 trials, the middle block at 21..40
C16_Witness ==
    \E c \in Callers :
        /\ calls[c].pc = "returned"
        /\ calls[c].preset = Some("stable_volatile_stable")
        /\ Len(calls[c].all_trials) = 60
        /\ calls[c].all_trials[20].block_id = "stable_0ms_1"
        /\ calls[c].all_trials[21].block_id = "volatile_random"
        /\ calls[c].all_trials[41].block_id = "stable_0ms_2"

\* C17: in a returned plan the trials of the k-th block carry
\* trial_index_in_block 0, 1, ..., n_trials - 1 in plan order, and
\* trial_index_global - trial_index_in_block is the same for all of them.
C17_IndexInBlockContiguous ==
    \A c \in Callers :
        calls[c].pc = "returned" =>
            LET cfg == Resolve(calls[c].preset)
                all_trials == calls[c].all_trials
            IN  \A k \in DOMAIN cfg.block_order :
                    LET first == TrialsUpTo(cfg.blocks, cfg.block_order, k - 1)
                        n_trials == cfg.blocks[cfg.block_order[k]].n_trials
                    IN  \A i \in 0..(n_trials - 1) :
                            /\ first + i + 1 \in DOMAIN all_trials
                            /\ all_trials[first + i + 1].trial_index_in_block = i
                            /\ all_trials[first + i + 1].trial_index_global
                                  - all_trials[first + i + 1].trial_index_in_block
                                  = all_trials[first + 1].trial_index_global

\* a plan of several blocks was built: the second block starts again at 0 and
\* its last trial has index n_trials - 1
C17_Witness ==
    \E c \in Callers :
        /\ calls[c].pc = "returned"
        /\ calls[c].preset = Some("learning_test")
        /\ calls[c].all_trials[160].trial_index_in_block = 159
        /\ calls[c].all_trials[161].trial_index_in_block = 0
        /\ calls[c].all_trials[161].trial_index_global = 160
        /\ calls[c].all_trials[180].trial_index_in_block = 19

\* the block has none of the mode keys: its delays come from generate_delay_sequence
GaussianMode(block_info) ==
    /\ "fixed_delay" \notin DOMAIN block_info
    /\ "discrete_set" \notin DOMAIN block_info
    /\ "uniform_range" \notin DOMAIN block_info

\* C18 as stated: in every mode the delays are the sampled values in sampling
\* order, delay generation makes no shuffle call, and one shuffle is drawn for
\* the block.
C18_NoShuffleInAnyMode ==
    blk.pc = "returned" =>
        /\ blk.delays = blk.sampled
        /\ blk.delays_rng.shuffles = 0
        /\ blk.rng.shuffles = 1

\* C18, amended: a block in fixed, discrete-set or uniform-range mode has its
\* delays in the order they were drawn, with no shuffle call in delay generation
\* and one shuffle (trial-type assignment) for the block; a block in Gaussian
\* mode has its sampled delays shuffled once by generate_delay_sequence, which
\* returns a permutation of them, and two shuffles are drawn for the block.
C18_ShuffleOnlyInGaussianMode ==
    blk.pc = "returned" =>
        IF GaussianMode(blk.block_info)
        THEN /\ blk.delays_rng.shuffles = 1
             /\ blk.rng.shuffles = 2
             /\ SameMultiset(blk.delays, blk.sampled)
        ELSE /\ blk.delays_rng.shuffles = 0
             /\ blk.rng.shuffles = 1
             /\ blk.delays = blk.sampled

\* a Gaussian block whose delays are not in sampling order
C18_Witness ==
    /\ blk.pc = "returned"
    /\ GaussianMode(blk.block_info)
    /\ blk.block_info.n_trials >= 3
    /\ blk.delays # blk.sampled
    /\ blk.delays_rng.shuffles = 1

\* the mode key that has precedence in block_info: fixed_delay, else
\* discrete_set, else uniform_range, else none of them (Gaussian)
ModeOf(block_info) ==
    IF "fixed_delay" \in DOMAIN block_info THEN "fixed_delay"
    ELSE IF "discrete_set" \in DOMAIN block_info THEN "discrete_set"
    ELSE IF "uniform_range" \in DOMAIN block_info THEN "uniform_range"
    ELSE "gaussian"

\* block_info with the mode keys other than its ModeOf removed, and with sigma
\* None unless the mode is the Gaussian one
OnlyMode(block_info) ==
    [key \in {"name", "n_trials", "sigma"} \cup ({ModeOf(block_info)} \ {"gaussian"}) |->
        IF key = "sigma" /\ ModeOf(block_info) # "gaussian" THEN None ELSE block_info[key]]

\* the delays of a block that has one mode only, computed by that mode
DelaysOfMode(block_info, rng) ==
    LET n_trials == block_info.n_trials
    IN  CASE ModeOf(block_info) = "fixed_delay" ->
                Repeat(block_info.fixed_delay, n_trials)
          [] ModeOf(block_info) = "discrete_set" ->
                LET st == Stream(rng.state, n_trials)
                IN  [i \in 1..n_trials |->
                        choice([rng EXCEPT !.state = st[i]], block_info.discrete_set).value]
          [] ModeOf(block_info) = "uniform_range" ->
                LET st == Stream(rng.state, n_trials)
                IN  [i \in 1..n_trials |->
                        randint([rng EXCEPT !.state = st[i]], block_info.uniform_range[1],
                                block_info.uniform_range[2] + 1).value]
          [] OTHER ->
                generate_delay_sequence(n_trials, block_info.sigma, rng).value

\* C19: the delays of a block are those of the first of fixed_delay,
\* discrete_set, uniform_range its specification has, or of the Gaussian mode
\* when it has none; they are the delays of the block with the other mode keys
\* removed, and every block with the same winning key, n_trials and seed (and
\* sigma, in Gaussian mode) has the same delays.
C19_ModePrecedence ==
    blk.pc = "returned" =>
        /\ blk.delays = DelaysOfMode(OnlyMode(blk.block_info), RandomGenerator(blk.seed))
        /\ \A other \in BlockInfos :
              OnlyMode(other) = OnlyMode(blk.block_info)
                  => BlockDelays(other, RandomGenerator(blk.seed)).value = blk.delays

\* a block with all three mode keys and a sigma got the fixed delays, and a
\* block with discrete_set and uniform_range got members of the discrete set
C19_Witness ==
    /\ blk.pc = "returned"
    /\ blk.block_info.n_trials = MaxBlockN
    /\ blk.block_info.sigma # None
    /\ \/ /\ DOMAIN blk.block_info
                = {"name", "n_trials", "sigma", "fixed_delay", "discrete_set", "uniform_range"}
          /\ blk.delays = Repeat(blk.block_info.fixed_delay, MaxBlockN)
       \/ /\ DOMAIN blk.block_info
                = {"name", "n_trials", "sigma", "discrete_set", "uniform_range"}
          /\ \A i \in DOMAIN blk.delays : blk.delays[i] \in {0, 400}
          /\ \E i, j \in DOMAIN blk.delays : blk.delays[i] # blk.delays[j]

\* the values of the sequence s
Values(s) == {s[i] : i \in DOMAIN s}

\* C20: the delay sequence of a block has n_trials values, all in the domain of
\* the block's mode: the fixed value (fixed_delay), members of discrete_set,
\* integers of min_delay .. max_delay (uniform_range), members of DELAY_SET
\* (Gaussian).
C20_DelaysInModeDomain ==
    blk.pc = "returned" =>
        LET block_info == blk.block_info
        IN  /\ Len(blk.delays) = block_info.n_trials
            /\ CASE ModeOf(block_info) = "fixed_delay" ->
                        \A i \in DOMAIN blk.delays : blk.delays[i] = block_info.fixed_delay
                 [] ModeOf(block_info) = "discrete_set" ->
                        Values(blk.delays) \subseteq Values(block_info.discrete_set)
                 [] ModeOf(block_info) = "uniform_range" ->
                        \A i \in DOMAIN blk.delays :
                            /\ blk.delays[i] \in Int
                            /\ block_info.uniform_range[1] <= blk.delays[i]
                            /\ blk.delays[i] <= block_info.uniform_range[2]
                 [] OTHER ->
                        Values(blk.delays) \subseteq Values(DELAY_SET)

\* a uniform-range block drew both of its bounds
C20_Witness ==
    /\ blk.pc = "returned"
    /\ ModeOf(blk.block_info) = "uniform_range"
    /\ blk.block_info.n_trials = MaxBlockN
    /\ blk.block_info.uniform_range[1] \in Values(blk.delays)
    /\ blk.block_info.uniform_range[2] \in Values(blk.delays)
    /\ blk.block_info.uniform_range[1] < blk.block_info.uniform_range[2]

\* a step that is a reset call
ResetStep == last'.op = "reset" /\ (last' # last \/ audio' # audio)

\* C24: a reset call, made with the scheduler idle, armed or fired, leaves no
\* pending fire time and no recorded play time and plays nothing; from then on
\* the fire time stays empty until a schedule_tone call, and a play_if_ready
\* made with no fire time returns false and plays nothing.
C24_ResetForcesIdle ==
    /\ [][ResetStep => /\ audio'.scheduled_time = None
                       /\ audio'.actual_play_time = None
                       /\ audio'.plays = audio.plays]_vars
    /\ [][(audio.scheduled_time = None /\ audio'.scheduled_time # None) => ScheduleStep]_vars
    /\ [][(audio.scheduled_time = None /\ PollStep)
            => /\ last'.value = FALSE
               /\ audio'.plays = audio.plays
               /\ audio'.scheduled_time = None]_vars

\* a fire time was armed and never fired, a reset discarded it, and a poll made
\* later than that fire time returned false: no tone, no play time
C24_Witness ==
    /\ last.op = "play_if_ready"
    /\ last.value = FALSE
    /\ last.delay_ms > 0
    /\ last.fired_since_arm = 0
    /\ last.at > last.reference_time + last.delay_ms
    /\ audio.scheduled_time = None
    /\ audio.actual_play_time = None
    /\ audio.plays = 0

\* C25: a play_if_ready that returns false, made idle or made armed with the
\* clock below the fire time, plays no tone and leaves the pending fire time
\* and the recorded play time as they were.
C25_FalsePollChangesNothing ==
    [][(PollStep /\ last'.value = FALSE)
        => /\ audio'.plays = audio.plays
           /\ audio'.scheduled_time = audio.scheduled_time
           /\ audio'.actual_play_time = audio.actual_play_time]_vars

\* a poll returned false with a fire time still ahead and an earlier tone's
\* play time on record
C25_Witness ==
    /\ last.op = "play_if_ready"
    /\ last.value = FALSE
    /\ audio.scheduled_time # None
    /\ last.at < audio.scheduled_time[1]
    /\ audio.actual_play_time # None
    /\ audio.plays = 1

\* C27: RandomGenerator.shuffle returns a list with the same elements as its
\* argument, each as many times, and the argument list is after the call what
\* it was before, for every list and every state of the generator.
C27_ShuffleIsPermutation ==
    shuf.pc = "returned" =>
        /\ SameMultiset(shuf.result, shuf.arr)
        /\ shuf.arr_after = shuf.arr

\* a list of distinct elements came back in another order, the caller's list
\* untouched
C27_Witness ==
    /\ shuf.pc = "returned"
    /\ Len(shuf.arr) = 3
    /\ \A i, j \in DOMAIN shuf.arr : i # j => shuf.arr[i] # shuf.arr[j]
    /\ shuf.result # shuf.arr
    /\ shuf.arr_after = shuf.arr

\* the calls the delay generation of a block makes on the generator
DelayDraws(block_info) ==
    CASE ModeOf(block_info) = "fixed_delay" -> <<>>
      [] ModeOf(block_info) = "discrete_set" -> Repeat("choice", block_info.n_trials)
      [] ModeOf(block_info) = "uniform_range" -> Repeat("randint", block_info.n_trials)
      [] OTHER -> <<"choice", "shuffle">>

\* the calls made for the blocks block_order[k..]: for each block in turn those
\* of its delay generation, then the shuffle of its trial types
RECURSIVE PlanDraws(_, _, _)
PlanDraws(blocks, block_order, k) ==
    IF k > Len(block_order)
    THEN <<>>
    ELSE DelayDraws(blocks[block_order[k]]) \o <<"shuffle">>
            \o PlanDraws(blocks, block_order, k + 1)

\* C21: the generator a create_all_trials call returns from was constructed
\* once, from the call's seed, and the calls made on it are, block after block
\* in block_order, those of the block's delay generation followed by the one
\* shuffle of its trial types.
C21_OneGeneratorFixedOrder ==
    \A c \in Callers :
        calls[c].pc = "returned" =>
            LET cfg == Resolve(calls[c].preset)
                draws == calls[c].rng.draws
            IN  /\ draws = <<"RandomState">> \o PlanDraws(cfg.blocks, cfg.block_order, 1)
                /\ Count(draws, "RandomState") = 1
                /\ calls[c].rng.state
                      = After(calls[c].seed % RngMod,
                              Cardinality({i \in DOMAIN calls[c].all_trials :
                                             ModeOf(cfg.blocks[calls[c].all_trials[i].block_id])
                                                 \in {"discrete_set", "uniform_range"}})
                              + 2 * Cardinality({i \in DOMAIN calls[c].all_trials :
                                             ModeOf(cfg.blocks[calls[c].all_trials[i].block_id])
                                                 = "gaussian"})
                              - Cardinality({k \in DOMAIN cfg.block_order :
                                             ModeOf(cfg.blocks[cfg.block_order[k]])
                                                 = "gaussian"})
                              + Len(calls[c].all_trials) - Len(cfg.block_order))

\* a plan with a Gaussian block followed by a discrete-set block was built
C21_Witness ==
    \E c \in Callers :
        /\ calls[c].pc = "returned"
        /\ calls[c].preset = Some("learning_test")
        /\ calls[c].rng.draws
              = <<"RandomState", "choice", "shuffle", "shuffle">>
                    \o Repeat("choice", 20) \o <<"shuffle">>

\* C28: for every seed, the plan of create_all_trials(seed, None) is the plan
\* of create_all_trials(seed, 'original'): the same trials in the same order,
\* field by field.
C28_DefaultEqualsOriginal ==
    \A a, b \in Callers :
        (/\ calls[a].pc # "idle"
         /\ calls[b].pc # "idle"
         /\ calls[a].seed = calls[b].seed
         /\ calls[a].preset = None
         /\ calls[b].preset = Some(DEFAULT_PRESET))
            => /\ calls[a].pc = "returned"
               /\ calls[b].pc = "returned"
               /\ calls[a].all_trials = calls[b].all_trials

\* both plans were built from the default seed: 480 trials with both trial
\* types and several delays
C28_Witness ==
    \E a, b \in Callers :
        /\ calls[a].pc = "returned"
        /\ calls[b].pc = "returned"
        /\ calls[a].seed = DEFAULT_SEED
        /\ calls[b].seed = DEFAULT_SEED
        /\ calls[a].preset = None
        /\ calls[b].preset = Some("original")
        /\ Len(calls[a].all_trials) = 480
        /\ calls[a].all_trials = calls[b].all_trials
        /\ \E i \in 1..480 : calls[a].all_trials[i].trial_type = "Pre-tone"
        /\ \E j, k \in 1..40 :
              /\ calls[a].all_trials[j].delay_ms # None
              /\ calls[a].all_trials[k].delay_ms # None
              /\ calls[a].all_trials[j].delay_ms # calls[a].all_trials[k].delay_ms

\* the ratio a preset's plan is built with: its own pretone_ratio when it
\* defines one, the default PRETONE_RATIO otherwise
RatioOf(preset_config) ==
    IF "pretone_ratio" \in DOMAIN preset_config
    THEN preset_config.pretone_ratio
    ELSE PRETONE_RATIO

\* C29: in a plan built from a preset, the k-th block holds exactly
\* floor(n_trials * r) Pre-tone trials, r being the preset's pretone_ratio when
\* it defines one and the default ratio otherwise, the same for all its blocks.
C29_PresetRatioOverride ==
    \A c \in Callers :
        (calls[c].pc = "returned" /\ PresetKnown(calls[c].preset)) =>
            LET preset_config == EXPERIMENT_PRESETS[calls[c].preset[1]]
                r == RatioOf(preset_config)
                all_trials == calls[c].all_trials
            IN  \A k \in DOMAIN preset_config.block_order :
                    LET first == TrialsUpTo(preset_config.blocks, preset_config.block_order,
                                            k - 1)
                        n_trials == preset_config.blocks[preset_config.block_order[k]].n_trials
                    IN  Cardinality({i \in (first + 1)..(first + n_trials) :
                                        all_trials[i].trial_type = "Pre-tone"})
                            = (n_trials * r) \div 100

\* the plan of learning_test, whose ratio is 0.1: 16 Pre-tone trials among the
\* 160 of its first block and 2 among the 20 of its second
C29_Witness ==
    \E c \in Callers :
        /\ calls[c].pc = "returned"
        /\ calls[c].preset = Some("learning_test")
        /\ Cardinality({i \in 1..160 : calls[c].all_trials[i].trial_type = "Pre-tone"}) = 16
        /\ Cardinality({i \in 161..180 : calls[c].all_trials[i].trial_type = "Pre-tone"}) = 2

\* a step in which the scheduler plays its scheduled tone
ToneFires == audio'.plays = audio.plays + 1 /\ last'.op = "play_if_ready"

\* C22: when a trial starts (its waiting_start loop is entered) the scheduler
\* has no pending fire time and no recorded play time, whatever the trial
\* before left; and a scheduled tone that plays during a trial is the one armed
\* by that trial's click, at the click time plus the trial's delay.
C22_ScheduleNotSharedAcrossTrials ==
    /\ [](exp.pc = "waiting_start"
            => audio.scheduled_time = None /\ audio.actual_play_time = None)
    /\ [][(exp.pc \notin {"idle", "built", "exited"} /\ ToneFires)
            => /\ exp.click_time # None
               /\ exp.click_time[1] >= exp.trial_start_time
               /\ exp.trials[exp.i + 1].trial_type = "Active"
               /\ audio.scheduled_time
                    = Some(exp.click_time[1] + exp.trials[exp.i + 1].delay_ms[1])]_vars

\* the third trial has started with the scheduler idle, after a trial whose
\* tone played and a trial that ended with its fire time (click + 2500 ms)
\* still pending
C22_Witness ==
    /\ exp.pc = "waiting_start"
    /\ exp.i = 2
    /\ Len(logger.data) = 2
    /\ logger.data[1].t_tone_ms # None
    /\ logger.data[2].t_tone_ms = None
    /\ logger.data[2].delay_ms = Some(2500)
    /\ last.op = "reset"
    /\ last.delay_ms = 2500
    /\ last.fired_since_arm = 0
    /\ audio.scheduled_time = None

\* C23: when the record of a trial has been logged the scheduler has no pending
\* fire time, whatever the trial's type and delay.
C23_ClearedAtEndOfTrial ==
    (exp.pc = "next_trial" /\ Len(logger.data) > 0) => audio.scheduled_time = None

\* C26: no step of a run (a pass of a trial's loops, the logging of a record
\* with its epsilon and latency fields, a break, the end of the run) changes
\* the plan: its length, its order, or any field of any of its trials.
C26_PlanNeverMutated ==
    [][(exp.pc # "idle" /\ exp'.pc # "idle")
        => /\ exp'.trials = exp.trials
           /\ \A j \in DOMAIN exp.trials :
                 DOMAIN exp'.trials[j]
                    = {"block_id", "block_name", "trial_index_in_block", "trial_type",
                       "delay_ms", "sigma", "trial_index_global"}]_vars

\* a run ended after two breaks and three logged records, which carry the
\* fields add_trial computes, with the plan as it was built
C26_Witness ==
    /\ exp.pc = "exited"
    /\ exp.quit_from = "end"
    /\ Len(logger.data) = 3
    /\ logger.data[2].epsilon_k = Some(2300)
    /\ logger.data[3].actual_tone_latency_ms # None
    /\ exp.trials = CustomPlan(exp.seed)
    /\ "epsilon_k" \notin DOMAIN exp.trials[2]

\* C30: the records are written by save_all only, at the end of a run whose
\* every trial was logged; a run that exits at an escape, wherever it is
\* detected, has written nothing of what it collected.
C30_CancelledRunDiscarded ==
    /\ logger.saved => /\ exp.pc = "exited"
                       /\ exp.quit_from = "end"
                       /\ Len(logger.data) = Len(exp.trials)
    /\ (exp.pc = "exited" /\ exp.quit_from = "end") => logger.saved
    /\ (exp.pc = "exited" /\ exp.quit_from # "end") => ~logger.saved

\* a run cancelled in the rating of a later trial: records were collected and
\* none was written
C30_Witness ==
    /\ exp.pc = "exited"
    /\ exp.quit_from = "rating"
    /\ Len(logger.data) >= 2
    /\ ~logger.saved

\* the trial in progress while the run is inside run_trial
InTrial == exp.pc \in {"waiting_start", "moving", "click_wait", "waiting_sound", "rating"}
CurrentTrial == exp.trials[exp.i + 1]

\* C33: the tone of an Active trial is never requested early: once it has
\* fired, the clock reading of the request is at least the click time plus the
\* trial's delay, and the latency logged for the trial is at least its delay.
C33_ToneNeverEarly ==
    /\ (InTrial /\ CurrentTrial.trial_type = "Active" /\ exp.tone_time # None)
            => /\ exp.click_time # None
               /\ exp.tone_time[1] >= exp.click_time[1] + CurrentTrial.delay_ms[1]
    /\ \A j \in 1..Len(logger.data) :
            (logger.data[j].trial_type = "Active" /\ logger.data[j].t_tone_ms # None)
                => /\ logger.data[j].actual_tone_latency_ms # None
                   /\ logger.data[j].actual_tone_latency_ms[1] >= logger.data[j].delay_ms[1]

\* an Active trial with a delay of 250 ms or more is logged with its tone
C33_Witness ==
    \E j \in 1..Len(logger.data) :
        /\ logger.data[j].trial_type = "Active"
        /\ logger.data[j].delay_ms[1] >= 250
        /\ logger.data[j].t_tone_ms # None
        /\ logger.data[j].actual_tone_latency_ms[1] > logger.data[j].delay_ms[1]

\* a step in which the tone is played
TonePlays == audio'.plays # audio.plays

\* C34: at most one tone per trial: whatever the mouse does, a tone is played
\* only in a trial that has had none, one at a time; a Pre-tone trial plays it
\* with play_immediately and never arms the scheduler; an Active trial plays it
\* with play_if_ready after its click and plays nothing when the boundary is
\* crossed.
C34_AtMostOneTone ==
    /\ [][TonePlays => /\ InTrial
                       /\ audio'.plays = audio.plays + 1
                       /\ exp.tone_time = None
                       /\ exp'.tone_time # None
                       /\ IF CurrentTrial.trial_type = "Pre-tone"
                          THEN last'.op = "play_immediately" /\ exp.pc = "moving"
                          ELSE last'.op = "play_if_ready" /\ exp.click_time # None]_vars
    /\ [][ScheduleStep => InTrial /\ CurrentTrial.trial_type = "Active"]_vars
    /\ []((InTrial /\ CurrentTrial.trial_type = "Pre-tone") => audio.scheduled_time = None)
    /\ [][(exp.pc = "moving" /\ CurrentTrial.trial_type = "Active"
            /\ ~exp.boundary_crossed /\ exp'.boundary_crossed) => ~TonePlays]_vars

\* a Pre-tone trial in which the cursor stayed two passes or more between the
\* crossing and the click, and an Active trial, are both logged with one tone
\* each
C34_Witness ==
    /\ audio.plays = 2
    /\ \E j, k \in 1..Len(logger.data) :
        /\ logger.data[j].trial_type = "Pre-tone"
        /\ logger.data[j].t_tone_ms # None
        /\ logger.data[j].t_click_ms[1] - logger.data[j].boundary_cross_time_ms[1] >= 2 * FrameMs
        /\ logger.data[k].trial_type = "Active"
        /\ logger.data[k].t_tone_ms # None

\* C36: a target click counts only after the boundary was crossed: a trial
\* leaves the moving loop and records its click time only with a crossing
\* detected in the same trial, no later than the click; so every logged record
\* has a crossing time, not after its click time, and the tone of every
\* Pre-tone record is not after its click.
C36_ClickAfterCrossing ==
    /\ [][(exp.pc = "moving" /\ exp'.pc # "moving" /\ exp'.pc # "exited")
            => /\ exp'.boundary_crossed
               /\ exp'.click_time # None
               /\ exp'.boundary_cross_time # None
               /\ exp'.boundary_cross_time[1] >= exp.trial_start_time
               /\ exp'.boundary_cross_time[1] <= exp'.click_time[1]]_vars
    /\ [][(exp.click_time = None /\ exp'.click_time # None)
            => exp.pc = "moving" /\ exp'.boundary_crossed]_vars
    /\ []((InTrial /\ exp.click_time # None) => exp.boundary_crossed)
    /\ [](\A j \in 1..Len(logger.data) :
            /\ logger.data[j].boundary_cross_time_ms # None
            /\ logger.data[j].t_click_ms # None
            /\ logger.data[j].boundary_cross_time_ms[1] <= logger.data[j].t_click_ms[1]
            /\ logger.data[j].trial_type = "Pre-tone"
                => /\ logger.data[j].t_tone_ms # None
                   /\ logger.data[j].t_tone_ms[1] <= logger.data[j].t_click_ms[1])

\* a Pre-tone and an Active trial are logged, one with the crossing in the
\* pass of the click and one with the crossing in an earlier pass
C36_Witness ==
    \E j, k \in 1..Len(logger.data) :
        /\ logger.data[j].trial_type = "Pre-tone"
        /\ logger.data[k].trial_type = "Active"
        /\ \E m \in {j, k} :
                logger.data[m].boundary_cross_time_ms = logger.data[m].t_click_ms
        /\ \E m \in {j, k} :
                logger.data[m].boundary_cross_time_ms[1] < logger.data[m].t_click_ms[1]

\* C37: the run loop arms only from Idle: schedule_tone is called only in the
\* moving loop of an Active trial that has no click yet, at a valid click on
\* the target (which ends the loop, so at most once per trial), with the
\* trial's delay and the click time, and only while no fire time is pending.
C37_ArmsOnlyFromIdle ==
    [][ScheduleStep => /\ exp.pc = "moving"
                       /\ CurrentTrial.trial_type = "Active"
                       /\ audio.scheduled_time = None
                       /\ exp.click_time = None
                       /\ exp'.pc = "click_wait"
                       /\ exp'.i = exp.i
                       /\ exp'.click_time = Some(last'.reference_time)
                       /\ exp'.boundary_crossed
                       /\ Abs(exp'.prev_mouse_x[1] - TARGET_X) <= TARGET_RADIUS
                       /\ last'.delay_ms = CurrentTrial.delay_ms[1]]_vars

\* the trial after the one whose tone never fired is armed
C37_Witness ==
    /\ exp.pc = "click_wait"
    /\ exp.i = 2
    /\ audio.scheduled_time # None
    /\ logger.data[2].t_tone_ms = None
    /\ last.op = "schedule_tone"

\* C35: an Active trial gets its tone unless the delay exceeds the timeout:
\* every logged Active trial with a delay below 2000 ms has a tone time, and
\* for any delay the loop that waits for the tone is left in the first pass
\* that finds more than 2 s gone since the click.
C35_ToneUnlessTimeout ==
    /\ [](\A j \in 1..Len(logger.data) :
            (logger.data[j].trial_type = "Active" /\ logger.data[j].delay_ms[1] < SoundTimeoutMs)
                => /\ logger.data[j].t_tone_ms # None
                   /\ logger.data[j].t_tone_ms[1] - logger.data[j].t_click_ms[1]
                        <= SoundTimeoutMs + FrameMs)
    /\ [](exp.pc = "waiting_sound"
            => /\ exp.click_time # None
               /\ exp.tone_time = None
               /\ now - exp.click_time[1] <= SoundTimeoutMs)
    /\ [][(exp.pc = "waiting_sound" /\ now + FrameMs - exp.click_time[1] > SoundTimeoutMs)
            => exp'.pc # "waiting_sound"]_vars

\* the trial with the delay just below the timeout is logged with its tone,
\* and the trial with the delay above it is logged without
C35_Witness ==
    \E j, k \in 1..Len(logger.data) :
        /\ logger.data[j].trial_type = "Active"
        /\ logger.data[j].delay_ms[1] < SoundTimeoutMs
        /\ logger.data[j].delay_ms[1] > SoundTimeoutMs - FrameMs
        /\ logger.data[j].t_tone_ms # None
        /\ logger.data[k].trial_type = "Active"
        /\ logger.data[k].delay_ms[1] > SoundTimeoutMs
        /\ logger.data[k].t_tone_ms = None

\* C38: the mu_0 and delay_set of a preset influence neither the plan nor
\* epsilon: presets that differ only in these two entries are built with the
\* same plan for the same seed (a plan no step of the run changes), the delays of a Gaussian block are values of the global
\* DELAY_SET whatever the preset's delay_set, and the epsilon_k logged for an
\* Active trial is its delay minus the global MU_0 (200), its square logged
\* beside it, whatever the preset's mu_0.
C38_PresetFieldsIgnored ==
    /\ MU_0 = 200
    /\ exp.pc = "built"
            => \A m \in FieldsMus, ds \in FieldsDelaySets :
                    FieldsPlan(FieldsConfig(m, ds), exp.seed) = exp.trials
    /\ \A i \in 1..Len(exp.trials) :
            exp.trials[i].trial_type = "Active"
                => \E d \in 1..Len(DELAY_SET) : exp.trials[i].delay_ms = Some(DELAY_SET[d])
    /\ \A j \in 1..Len(logger.data) :
            IF logger.data[j].trial_type = "Active"
            THEN /\ logger.data[j].epsilon_k = Some(logger.data[j].delay_ms[1] - 200)
                 /\ logger.data[j].epsilon_k_squared
                        = Some((logger.data[j].delay_ms[1] - 200) * (logger.data[j].delay_ms[1] - 200))
            ELSE logger.data[j].epsilon_k = None

\* a run of a preset with mu_0 250 and delay_set [0] ends with an Active trial
\* logged whose delay is not in the preset's delay_set and whose epsilon_k is
\* not its delay minus the preset's mu_0
C38_Witness ==
    /\ exp.quit_from = "end"
    /\ exp.preset_config # None
    /\ exp.preset_config[1].mu_0 = 250
    /\ exp.preset_config[1].delay_set = <<0>>
    /\ \E j \in 1..Len(logger.data) :
        /\ logger.data[j].trial_type = "Active"
        /\ logger.data[j].delay_ms # Some(0)
        /\ logger.data[j].epsilon_k # None
        /\ logger.data[j].epsilon_k # Some(logger.data[j].delay_ms[1] - 250)
    /\ \E j \in 1..Len(logger.data) : logger.data[j].trial_type = "Pre-tone"

\* C32: for conditions A, B and C and every mu_delay, _generate_trial_sequence
\* returns 60 trials numbered 1..60 in order; trials 1-20 (Baseline) and 41-60
\* (Washout) have task_delay 0 and ans_delay 0; trials 21-40 (Intervention)
\* have (task_delay, ans_delay) = (0, 0) for A, (mu_delay, 0) for B and
\* (mu_delay, mu_delay) for C.
C32_TrialSequence ==
    (seq.pc \in {"returned", "raised"} /\ seq.condition \in {"A", "B", "C"})
        => /\ seq.pc = "returned"
           /\ Len(seq.trial_sequence) = 60
           /\ \A i \in 1..60 :
                LET t == seq.trial_sequence[i]
                IN  /\ t.trial_num = i
                    /\ (i <= 20) => t.step = "Step1_Baseline"
                    /\ (i >= 21 /\ i <= 40) => t.step = "Step2_Intervention"
                    /\ (i >= 41) => t.step = "Step3_Washout"
                    /\ (i <= 20 \/ i >= 41) => (t.task_delay = 0 /\ t.ans_delay = 0)
                    /\ (i >= 21 /\ i <= 40)
                        => /\ seq.condition = "A" => (t.task_delay = 0 /\ t.ans_delay = 0)
                           /\ seq.condition = "B"
                                => (t.task_delay = seq.mu_delay /\ t.ans_delay = 0)
                           /\ seq.condition = "C"
                                => (t.task_delay = seq.mu_delay /\ t.ans_delay = seq.mu_delay)

\* the sequence of condition B with a mu_delay that is not 0 is returned
C32_Witness ==
    /\ seq.pc = "returned"
    /\ seq.condition = "B"
    /\ seq.mu_delay > 0
    /\ seq.trial_sequence[21].task_delay = seq.mu_delay
    /\ seq.trial_sequence[21].ans_delay = 0

\* C31: Block 3 presentation keeps the 250 ms bound: in the order in which
\* the trials of Block 3 are presented, catch trials included, the delay of
\* each target trial differs by at most 250 ms from the delay of the trial
\* presented just before it, whenever that trial has a numeric delay.
C31_PresentationKeepsBound ==
    \A i \in 2..Len(block3.presented) :
        LET this == block3.presented[i].delay_ms
            before == block3.presented[i - 1].delay_ms
        IN  (~IsCatch(this) /\ ~before.negative) => Abs(this.ms - before.ms) <= 250

\* the left edge of the goal area (lines 291-293)
GoalLeftEdge == BAR_X + BAR_WIDTH \div 2 - GOAL_AREA_WIDTH

\* C39: every completed trial of SoAExperiment.run_trial has played the tone
\* exactly once; in a 'negative' trial the tone is played in the first pass
\* that finds the cursor at or past the left edge of the goal area, at a time
\* not after the click; in a trial with a numeric delay it is played after
\* the click, at click_time + delay or later.
C39_ToneOrdering ==
    /\ [](soa.pc # "idle" => soa.plays <= 1)
    /\ [](soa.pc = "returned"
            => /\ soa.plays = 1
               /\ soa.tone_played
               /\ soa.click_time # None
               /\ soa.tone_time # None
               /\ IF soa.delay = Negative
                  THEN soa.tone_time[1] <= soa.click_time[1]
                  ELSE soa.tone_time[1] >= soa.click_time[1] + soa.delay.ms)
    /\ []((soa.pc = "loop" /\ soa.delay = Negative /\ ~soa.tone_played)
            => soa.cursor_x < GoalLeftEdge)
    /\ [][(soa.delay = Negative /\ soa'.plays # soa.plays)
            => /\ ~soa.tone_played
               /\ soa'.cursor_x >= GoalLeftEdge
               /\ soa'.tone_time = Some(now)]_vars
    /\ [][(soa.delay # Negative /\ soa'.plays # soa.plays)
            => /\ soa'.click_time = Some(now + FrameMs)
               /\ soa'.tone_time = Some(now + FrameMs + soa.delay.ms)]_vars

\* a 'negative' trial whose tone was played in an earlier pass than the click
\* has returned its record
C39_Witness ==
    /\ soa.pc = "returned"
    /\ soa.delay = Negative
    /\ soa.trial_data # None
    /\ soa.trial_data[1].tone_time # None
    /\ soa.trial_data[1].tone_time[1] + FrameMs < soa.trial_data[1].click_time[1]
====
